---- MODULE Spec2Model ----
(***************************************************************************)
(* A model of MaSteel's browser tools: the explore-navigation link         *)
(* discovery run (tools/exploreNavigation.ts, here src/unnamed/part_000),  *)
(* search-for-page and scrape-url, and the pure helpers they are built on. *)
(*                                                                         *)
(* JavaScript strings are modelled as sequences of one-character strings,  *)
(* so that startsWith, slice, toLowerCase and URL resolution are computed  *)
(* rather than assumed.  A JavaScript Map is modelled as the sequence of   *)
(* its values in insertion order (its iteration order), with unique keys.  *)
(***************************************************************************)
EXTENDS Integers, Sequences, FiniteSets, TLC

(***************************************************************************)
(* Bounds of the model.                                                    *)
(***************************************************************************)
\* maxLinks ranges over the integers and the half-integers from -1 to
\* MaxLinksBound + 1/2 (the zod schema is z.number()).
MaxLinksBound == 3
\* Longest raw anchor list handed to the pure-function specifications.
MaxRaw == 2
\* Longest of the short messages of a thrown error.
MaxMessageLen == 2

(***************************************************************************)
(* Program constants.                                                      *)
(***************************************************************************)
DEFAULT_MAX_LINKS == 50
LabelMax == 120
ItemTextMax == 50
HoverCap == 15
MAX_MATCHES == 10
MAX_CHARS == 15000
HttpErrorMin == 400

(***************************************************************************)
(* Numbers.  maxLinks is a JavaScript number that the schema does not      *)
(* require to be an integer: it is modelled as floor + 1/2 when half, and  *)
(* compared with and subtracted from the integer totalLinksFound.          *)
(***************************************************************************)
Number(n, h) == [floor |-> n, half |-> h]
IsPositiveInteger(x) == ~x.half /\ x.floor > 0
\* n >= x and n < x, for an integer n.
AtLeast(n, x) == IF x.half THEN n > x.floor ELSE n >= x.floor
\* The mutant of Below: n <= x.
NotAbove(n, x) == n <= x.floor

Below(n, x) == ~AtLeast(n, x)
\* x - n, for an integer n.
Minus(x, n) == [x EXCEPT !.floor = @ - n]
\* ToIntegerOrInfinity, which slice applies to its arguments: truncation
\* toward zero.
ToInteger(x) == IF x.half /\ x.floor < 0 THEN x.floor + 1 ELSE x.floor

(***************************************************************************)
(* Strings.                                                                *)
(***************************************************************************)
Min(a, b) == IF a < b THEN a ELSE b
Max(a, b) == IF a > b THEN a ELSE b

\* Array.prototype.slice(0, n) / String.prototype.slice(0, n): a negative n
\* counts from the end, and the result is never longer than the receiver.
Slice0(s, n) ==
    LET k == IF n < 0 THEN Max(Len(s) + n, 0) ELSE Min(n, Len(s))
    IN  SubSeq(s, 1, k)

\* String.prototype.startsWith (case-sensitive, no trimming).
StartsWith(s, p) == Len(s) >= Len(p) /\ SubSeq(s, 1, Len(p)) = p

UpperChars == <<"A","B","C","D","E","F","G","H","I","J","K","L","M",
                "N","O","P","Q","R","S","T","U","V","W","X","Y","Z">>
LowerChars == <<"a","b","c","d","e","f","g","h","i","j","k","l","m",
                "n","o","p","q","r","s","t","u","v","w","x","y","z">>
IsUpper(c) == \E i \in 1..Len(UpperChars) : UpperChars[i] = c
IsLower(c) == \E i \in 1..Len(LowerChars) : LowerChars[i] = c
IsAlpha(c) == IsUpper(c) \/ IsLower(c)
LowerChar(c) ==
    IF IsUpper(c)
    THEN LowerChars[CHOOSE i \in 1..Len(UpperChars) : UpperChars[i] = c]
    ELSE c
\* String.prototype.toLowerCase.
ToLowerCase(s) == [i \in 1..Len(s) |-> LowerChar(s[i])]

\* String.prototype.includes.
Includes(s, sub) ==
    \E i \in 0..(Len(s) - Len(sub)) : SubSeq(s, i + 1, i + Len(sub)) = sub

\* String(n) for a natural number n.
Digits == <<"0","1","2","3","4","5","6","7","8","9">>
RECURSIVE NumberToString(_)
NumberToString(n) ==
    IF n < 10 THEN <<Digits[n + 1]>>
    ELSE NumberToString(n \div 10) \o <<Digits[(n % 10) + 1]>>

\* The string literals of the source, spelled out.
JAVASCRIPT == <<"j","a","v","a","s","c","r","i","p","t",":">>
MAILTO == <<"m","a","i","l","t","o",":">>
TEL == <<"t","e","l",":">>
HASH == <<"#">>
HTTP == <<"h","t","t","p">>

(***************************************************************************)
(* new URL(href, base).href, for the forms of href the model uses: an      *)
(* absolute URL with a scheme (the scheme is lower-cased; an http URL      *)
(* needs a valid host), a path-absolute reference, a fragment-only         *)
(* reference, the empty reference, and a relative path without dot         *)
(* segments.  Leading and trailing spaces are stripped first, as the URL   *)
(* parser does.  The result is [ok |-> FALSE] where new URL throws.        *)
(***************************************************************************)
RECURSIVE TrimLeft(_)
TrimLeft(s) == IF s # <<>> /\ Head(s) = " " THEN TrimLeft(Tail(s)) ELSE s
RECURSIVE TrimRight(_)
TrimRight(s) ==
    IF s # <<>> /\ s[Len(s)] = " " THEN TrimRight(SubSeq(s, 1, Len(s) - 1)) ELSE s
UrlTrim(s) == TrimRight(TrimLeft(s))

\* Position of the colon that ends a scheme, or 0 when s has no scheme.
SchemeEnd(s) ==
    LET colons == {k \in 2..Len(s) :
                      /\ s[k] = ":"
                      /\ \A j \in 1..(k - 1) : IsAlpha(s[j])}
    IN  IF colons = {} THEN 0 ELSE CHOOSE k \in colons : \A j \in colons : k <= j

IndexOf(s, c, from) ==
    LET hits == {k \in from..Len(s) : s[k] = c}
    IN  IF hits = {} THEN 0 ELSE CHOOSE k \in hits : \A j \in hits : k <= j
LastIndexOf(s, c) ==
    LET hits == {k \in 1..Len(s) : s[k] = c}
    IN  IF hits = {} THEN 0 ELSE CHOOSE k \in hits : \A j \in hits : k >= j

\* base is an absolute http URL "http://host/path" without query.
WithoutFragment(u) ==
    LET k == IndexOf(u, "#", 1) IN IF k = 0 THEN u ELSE SubSeq(u, 1, k - 1)
UrlOrigin(base) ==
    LET k == IndexOf(base, "/", SchemeEnd(base) + 3)
    IN  IF k = 0 THEN base ELSE SubSeq(base, 1, k - 1)
UrlDirectory(base) ==
    LET b == WithoutFragment(base) IN SubSeq(b, 1, LastIndexOf(b, "/"))

ResolveRelative(h, base) ==
    IF h = <<>> THEN [ok |-> TRUE, href |-> WithoutFragment(base)]
    ELSE IF Head(h) = "/" THEN [ok |-> TRUE, href |-> UrlOrigin(base) \o h]
    ELSE IF Head(h) = "#" THEN [ok |-> TRUE, href |-> WithoutFragment(base) \o h]
    ELSE [ok |-> TRUE, href |-> UrlDirectory(base) \o h]

URLhref(href, base) ==
    LET h == UrlTrim(href)
        k == SchemeEnd(h)
        scheme == ToLowerCase(SubSeq(h, 1, k - 1))
        rest == SubSeq(h, k + 1, Len(h))
    IN  IF k = 0 THEN ResolveRelative(h, base)
        ELSE IF scheme = HTTP
        THEN IF StartsWith(rest, <<"/", "/">>)
             THEN IF IndexOf(rest, "[", 1) > 0 /\ IndexOf(rest, "]", 1) = 0
                  THEN [ok |-> FALSE, href |-> <<>>]
                  ELSE [ok |-> TRUE, href |-> scheme \o <<":">> \o rest]
             ELSE ResolveRelative(rest, base)
        ELSE [ok |-> TRUE, href |-> scheme \o <<":">> \o rest]

(***************************************************************************)
(* Link Collector and Snapshot Differ.                                     *)
(*                                                                         *)
(* A LinkInfo is [url, text, from]: url and text are the source's fields;  *)
(* from is a history field holding the raw href attribute of the anchor    *)
(* the entry was created from (the code does not keep it).                 *)
(***************************************************************************)
MapHas(map, url) == \E i \in 1..Len(map) : map[i].url = url

LinkInfo(resolved, text, href) ==
    [url |-> resolved, text |-> Slice0(text, LabelMax), from |-> href]

\* The filter of collectLinks (line 33).
IsExcluded(href) ==
    \/ StartsWith(href, JAVASCRIPT)
    \/ StartsWith(href, MAILTO)
    \/ StartsWith(href, TEL)
    \/ href = HASH

\* The mutant of CollectAnchor: a later anchor overwrites the entry of an
\* earlier one with the same URL (map.set without the map.has test).
CollectAnchorLastWins(map, a, baseUrl) ==
    IF IsExcluded(a.href) THEN map
    ELSE LET r == URLhref(a.href, baseUrl) IN
         IF ~r.ok THEN map
         ELSE IF MapHas(map, r.href)
         THEN [i \in 1..Len(map) |->
                 IF map[i].url = r.href THEN LinkInfo(r.href, a.text, a.href)
                 ELSE map[i]]
         ELSE Append(map, LinkInfo(r.href, a.text, a.href))

\* One iteration of the loop of collectLinks (lines 32-42).
CollectAnchor(map, a, baseUrl) ==
    IF IsExcluded(a.href) THEN map
    ELSE LET r == URLhref(a.href, baseUrl) IN
         IF ~r.ok THEN map
         ELSE IF MapHas(map, r.href) THEN map
         ELSE Append(map, LinkInfo(r.href, a.text, a.href))

RECURSIVE CollectInto(_, _, _)
CollectInto(map, raw, baseUrl) ==
    IF raw = <<>> THEN map
    ELSE CollectInto(CollectAnchor(map, Head(raw), baseUrl), Tail(raw), baseUrl)

\* collectLinks, given what page.evaluate returned.
collectLinks(raw, baseUrl) == CollectInto(<<>>, raw, baseUrl)

\* The mutant of diffLinks: the test is on the label as well as the URL, so
\* a link whose label changed counts as new.
diffLinksByEntry(before, after) ==
    SelectSeq(after, LAMBDA info :
                ~\E i \in 1..Len(before) :
                    before[i].url = info.url /\ before[i].text = info.text)

\* diffLinks (lines 49-57).
diffLinks(before, after) ==
    SelectSeq(after, LAMBDA info : ~MapHas(before, info.url))

(***************************************************************************)
(* The selector lists of the source.                                       *)
(***************************************************************************)
cookieSelectors ==
    << "button:has-text(\"Accept\")", "button:has-text(\"Accept All\")",
       "button:has-text(\"Accept all\")", "button:has-text(\"Got it\")",
       "button:has-text(\"I agree\")", "button:has-text(\"OK\")",
       "[id*=\"cookie\"] button", "[class*=\"cookie\"] button",
       "[id*=\"consent\"] button", "[class*=\"consent\"] button" >>

navSelectors ==
    << "nav a", "[role=\"navigation\"] a", "header a", "header ul a",
       ".navbar a", ".nav a", "[class*=\"nav\"] a" >>

hoverTargetSelectors ==
    << "nav > ul > li", "nav > div > ul > li",
       "[role=\"navigation\"] > ul > li", "header nav li",
       ".navbar li:has(ul), .navbar li:has([class*=\"dropdown\"])",
       "[class*=\"nav\"] > ul > li", "nav button", "header button" >>

hamburgerSelectors ==
    << "button[aria-label*=\"menu\" i]", "button[aria-label*=\"Menu\" i]",
       "button[aria-label*=\"navigation\" i]", "[class*=\"hamburger\"]",
       "[class*=\"menu-toggle\"]", "[class*=\"mobile-menu\"]",
       "[class*=\"nav-toggle\"]", "button:has(.hamburger)",
       "button[class*=\"burger\"]", "[aria-controls*=\"nav\"]",
       "[aria-controls*=\"menu\"]" >>

footerSelectors ==
    << "footer a", "[role=\"contentinfo\"] a", "[class*=\"footer\"] a" >>

(***************************************************************************)
(* The pages the tools are run against.                                    *)
(*                                                                         *)
(* A site is what the browser shows for the target URL:                    *)
(*   status    the HTTP status of the navigation response                  *)
(*   static    the anchors always in the document, in document order;      *)
(*             sels are the nav/footer selectors matching the anchor       *)
(*   initial   anchors of a dropdown that is open when the page loads      *)
(*   hover     per hover selector, the elements it matches; hovering an    *)
(*             element puts its shows into the document (replacing the     *)
(*             open dropdown, or adding to it on a sticky page)            *)
(*   toggles   per hamburger selector, its first match; clicking a         *)
(*             toggle opens its menu, clicking again closes it             *)
(*   overlays  the consent overlays, each the set of cookie selectors      *)
(*             that match its button                                       *)
(*   title, mdLen   document title and length of the converted markdown    *)
(***************************************************************************)
BaseUrl == <<"h","t","t","p",":","/","/","s","/","p">>

H_a == <<"/","a">>
H_aRel == <<"a">>
H_b == <<"/","b">>
H_c == <<"/","c">>
H_d == <<"/","d">>
H_e == <<"/","e">>
H_frag == <<"#","x">>
H_empty == <<>>
H_js == JAVASCRIPT \o <<"0">>
H_mail == MAILTO \o <<"m">>
H_tel == TEL \o <<"1">>
H_telSpace == <<" ">> \o TEL \o <<"1">>
H_bad == <<"h","t","t","p",":","/","/","[">>

T_A == <<"A">>
T_B == <<"B">>
T_none == <<>>
T_long == [k \in 1..(LabelMax + 5) |-> "x"]

Anchor(href, text, sels) == [href |-> href, text |-> text, sels |-> sels]
Item(id, text, shows) == [id |-> id, text |-> text, shows |-> shows]

NoSite ==
    [status |-> 200, static |-> <<>>, initial |-> <<>>, sticky |-> FALSE,
     hover |-> <<>>, toggles |-> <<>>, overlays |-> {},
     title |-> T_none, mdLen |-> 0]

\* A static navigation bar and a footer that repeats part of it.
SiteStatic ==
    [NoSite EXCEPT
       !.static = << Anchor(H_a, T_A, {"nav a", "header a"}),
                     Anchor(H_aRel, T_B, {"header a"}),
                     Anchor(H_tel, T_A, {"nav a"}),
                     Anchor(H_bad, T_A, {"nav a"}),
                     Anchor(H_b, T_B, {"header a", "[class*=\"nav\"] a"}),
                     Anchor(HASH, T_A, {"nav a", "footer a"}),
                     Anchor(H_b, T_B, {"footer a"}),
                     Anchor(H_mail, T_A, {"footer a"}),
                     Anchor(H_c, T_A, {"footer a", "[class*=\"footer\"] a"}),
                     Anchor(H_d, T_B, {"[class*=\"footer\"] a"}) >>,
       !.overlays = {{"button:has-text(\"Accept\")",
                      "button:has-text(\"Accept All\")"}},
       !.title = T_A,
       !.mdLen = MAX_CHARS]

\* The same page served with an HTTP error status.
SiteNotFound == [SiteStatic EXCEPT !.status = 404, !.overlays = {}]

\* Links that appear only when a menu item is hovered; the first item is
\* matched by two hover selectors.
SiteHover ==
    [NoSite EXCEPT
       !.static = << Anchor(H_a, T_A, {"nav a"}),
                     Anchor(H_js, T_A, {"nav a"}) >>,
       !.initial = << Anchor(H_b, T_B, {"nav a"}) >>,
       !.hover = << [sel |-> "nav > ul > li",
                     items |-> << Item("li1", <<"P">>,
                                       << Anchor(H_c, T_A, {"nav a"}),
                                          Anchor(H_telSpace, T_A, {}),
                                          Anchor(H_mail, T_A, {}) >>),
                                  Item("li2", T_none,
                                       << Anchor(H_b, T_A, {"nav a"}),
                                          Anchor(H_d, T_A, {}) >>) >>],
                    [sel |-> "header nav li",
                     items |-> << Item("li1", <<"P">>,
                                       << Anchor(H_c, T_A, {"nav a"}),
                                          Anchor(H_telSpace, T_A, {}),
                                          Anchor(H_mail, T_A, {}) >>) >>] >>,
       !.title = T_B,
       !.mdLen = MAX_CHARS + 1]

\* A mobile page: two menu toggles, two consent overlays, a small footer.
SiteMobile ==
    [NoSite EXCEPT
       !.static = << Anchor(H_empty, T_A, {"footer a"}),
                     Anchor(H_e, T_long, {"footer a"}) >>,
       !.toggles = << [sel |-> "button[aria-label*=\"menu\" i]", id |-> "burger",
                       visible |-> TRUE,
                       shows |-> << Anchor(H_a, T_A, {"nav a"}),
                                    Anchor(H_frag, T_B, {"nav a"}),
                                    Anchor(H_js, T_B, {"nav a"}) >>],
                      [sel |-> "[class*=\"hamburger\"]", id |-> "burger",
                       visible |-> TRUE,
                       shows |-> << Anchor(H_a, T_A, {"nav a"}),
                                    Anchor(H_frag, T_B, {"nav a"}),
                                    Anchor(H_js, T_B, {"nav a"}) >>],
                      [sel |-> "[class*=\"menu-toggle\"]", id |-> "hidden",
                       visible |-> FALSE, shows |-> <<>>],
                      [sel |-> "[aria-controls*=\"menu\"]", id |-> "drawer",
                       visible |-> TRUE,
                       shows |-> << Anchor(H_c, T_A, {"footer a"}) >>] >>,
       !.overlays = {{"button:has-text(\"OK\")"}, {"[id*=\"cookie\"] button"}},
       !.mdLen = 7]

\* The hover page with dropdowns that stay in the document once shown.
SiteSticky == [SiteHover EXCEPT !.sticky = TRUE]

\* A listing page: one more link than search-for-page returns, the first
\* of them twice, outside every navigation and footer scope.
H_k(n) == <<"/","k">> \o NumberToString(n)
SiteMany ==
    [NoSite EXCEPT
       !.static = << Anchor(H_k(1), T_A, {}) >>
                     \o [n \in 1..(MAX_MATCHES + 1) |-> Anchor(H_k(n), T_B, {})],
       !.title = T_B,
       !.mdLen = MAX_CHARS - 1]

\* A page on which every phase of explore-navigation finds something: a
\* navigation link, a dropdown behind a menu item, a menu behind a toggle
\* and a footer link.
SitePortal ==
    [NoSite EXCEPT
       !.static = << Anchor(H_a, T_A, {"nav a"}),
                     Anchor(H_e, T_B, {"footer a"}) >>,
       !.hover = << [sel |-> "nav > ul > li",
                     items |-> << Item("li1", <<"P">>,
                                       << Anchor(H_c, T_A, {}) >>) >>] >>,
       !.toggles = << [sel |-> "[class*=\"hamburger\"]", id |-> "burger",
                       visible |-> TRUE,
                       shows |-> << Anchor(H_d, T_A, {}) >>] >>,
       !.title = T_A,
       !.mdLen = 7]

\* A wide menu bar: one button more than a hover scope processes.  The
\* buttons are labelled 1, 2, ...; the last one within the cap shows /b and
\* the one beyond it shows /c.
SiteWide ==
    [NoSite EXCEPT
       !.hover = << [sel |-> "nav button",
                     items |-> [n \in 1..(HoverCap + 1) |->
                                  Item("button", NumberToString(n),
                                       IF n = HoverCap
                                       THEN << Anchor(H_b, T_B, {}) >>
                                       ELSE IF n = HoverCap + 1
                                       THEN << Anchor(H_c, T_A, {}) >>
                                       ELSE <<>>)]] >>,
       !.title = T_A,
       !.mdLen = 7]

Sites == {NoSite, SiteStatic, SiteNotFound, SiteHover, SiteSticky, SiteMobile,
          SiteMany, SitePortal, SiteWide}

(***************************************************************************)
(* State.                                                                  *)
(***************************************************************************)
VARIABLES
    tool,             \* which tool's execute is running
    pc,               \* position in execute
    site,             \* the page served for the target URL
    keyword,          \* search-for-page's keyword
    maxLinks,         \* explore-navigation's maxLinks
    page,             \* the page from getPage: "none", "open", "closed"
    dropdown,         \* anchors of the dropdown now in the document
    menuOpen,         \* ids of the toggles whose menu is open
    overlays,         \* consent overlays still shown
    errors, sections, totalLinksFound,
    baseline, primaryNavLinks, footerLinks,
    sel,              \* index in the selector list being iterated
    i, count,         \* the hover loop's item index and items.count()
    result,           \* "none", "value" (a value is returned), "throw"
    ret,              \* the value returned
    ran,              \* history: the phases entered
    faults,           \* history: the steps that failed
    clicks,           \* history: the toggles clicked open, in order
    argA, argB, out,  \* inputs and output of the pure-function checks
    sessionPromise,   \* session.ts: 0 (null) or the session the promise is for
    browser,          \* session.ts: 0 (null) or the connected Browser
    browserPromise,   \* session.ts: 0 (null) or the Browser the promise is for
    sessions,         \* the Steel sessions asked for, by number
    browsers,         \* the runs of getBrowser's connecting function, by number
    pages,            \* the pages getPage made
    callers,          \* per caller, the call of a session.ts function in flight
    calls,            \* number of calls made by the tool callers
    main,             \* position of index.ts's main function
    returned,         \* history: the calls that ended, with their results
    releaseCalled,    \* history: releaseSession has been called
    swept             \* history: what existed when a releaseSession completed

toolVars == << tool, pc, site, keyword, maxLinks, page, dropdown, menuOpen,
               overlays, errors, sections, totalLinksFound, baseline,
               primaryNavLinks, footerLinks, sel, i, count, result, ret, ran,
               faults, clicks, argA, argB, out >>
sessionVars == << sessionPromise, browser, browserPromise, sessions, browsers,
                  pages, callers, calls, main, returned, releaseCalled, swept >>
vars == << toolVars, sessionVars >>

runVars == << keyword, errors, sections, totalLinksFound, baseline,
              primaryNavLinks, footerLinks, sel, i, count, ret, clicks >>
domVars == << dropdown, menuOpen, overlays >>
fnVars == << argA, argB, out >>

(***************************************************************************)
(* The document.                                                           *)
(***************************************************************************)
RECURSIVE MenusShown(_, _)
MenusShown(toggles, open) ==
    IF toggles = <<>> THEN <<>>
    ELSE LET t == Head(toggles)
             first == \A k \in 1..Len(site.toggles) :
                         site.toggles[k].id = t.id =>
                             k >= Len(site.toggles) - Len(toggles) + 1
         IN  (IF t.id \in open /\ first THEN t.shows ELSE <<>>)
                 \o MenusShown(Tail(toggles), open)

\* All anchors of the document, in document order.
DomOf(drop, open) == site.static \o drop \o MenusShown(site.toggles, open)
Dom == DomOf(dropdown, menuOpen)

\* What page.evaluate returns for a selector: { href, text } per match.
RawOf(anchors) == [k \in 1..Len(anchors) |-> [href |-> anchors[k].href,
                                               text |-> anchors[k].text]]
EvaluateAll(dom) == RawOf(dom)
EvaluateSelector(dom, selector) ==
    RawOf(SelectSeq(dom, LAMBDA a : selector \in a.sels))

\* The document after hovering an item.
Hovered(drop, item) ==
    IF site.sticky
    THEN drop \o SelectSeq(item.shows,
                           LAMBDA a : ~\E k \in 1..Len(drop) : drop[k] = a)
    ELSE item.shows

\* The open menus after clicking a toggle.
Clicked(open, id) == IF id \in open THEN open \ {id} ELSE open \cup {id}

HoverItems(selector) ==
    LET hits == {k \in 1..Len(site.hover) : site.hover[k].sel = selector}
    IN  IF hits = {} THEN <<>> ELSE site.hover[CHOOSE k \in hits : TRUE].items

Toggles(selector) ==
    {site.toggles[k] : k \in {j \in 1..Len(site.toggles) :
                                  site.toggles[j].sel = selector}}

OverlaysOf(selector) == {o \in overlays : selector \in o}

(***************************************************************************)
(* Initial states: one tool call about to start.                           *)
(***************************************************************************)
Tools == {"explore-navigation", "search-for-page", "scrape-url"}

\* The maxLinks inputs: absent (undefined), or a number the schema admits.
RawMaxLinks ==
    {[given |-> FALSE, value |-> Number(0, FALSE)]}
        \cup {[given |-> TRUE, value |-> Number(n, h)] :
                  n \in (0 - 1)..MaxLinksBound, h \in BOOLEAN}

Keywords == {<<"a">>, <<"B">>, <<"K">>, <<"t","e","l">>}

\* The callers of session.ts: index.ts's main function and two tool calls.
Callers == {"main", "t1", "t2"}

\* What a call ends with: a value of some kind, or a rejection.
None == [kind |-> "none", id |-> 0]
Rejected == [kind |-> "rejected", id |-> 0]
Void == [kind |-> "void", id |-> 0]
SessionValue(k) == [kind |-> "session", id |-> k]
BrowserValue(b) == [kind |-> "browser", id |-> b]
PageValue(n) == [kind |-> "page", id |-> n]

\* A caller: the function it is in (op), where that call stands (pc), the
\* session or browser it waits for or holds (on), the context chosen by
\* getPage (ctx), and what its last call ended with (got).
Idle(v) == [op |-> "idle", pc |-> "idle", on |-> 0, ctx |-> 0, got |-> v]
Awaiting(op, at, on) == [op |-> op, pc |-> at, on |-> on, ctx |-> 0, got |-> None]

\* session.ts as loaded: no session, no browser, nobody calling.
NoSession ==
    /\ sessionPromise = 0
    /\ browser = 0
    /\ browserPromise = 0
    /\ sessions = <<>>
    /\ browsers = <<>>
    /\ pages = <<>>
    /\ callers = [p \in Callers |-> Idle(None)]
    /\ calls = 0
    /\ returned = {}
    /\ releaseCalled = FALSE
    /\ swept = [done |-> FALSE, browsers |-> 0, sessions |-> 0]

NoFn == /\ argA = <<>>
        /\ argB = <<>>
        /\ out = <<>>

Init ==
    /\ tool \in Tools
    /\ pc = "getPage"
    /\ site \in Sites
    /\ keyword \in (IF tool = "search-for-page" THEN Keywords ELSE {<<>>})
    /\ \E raw \in (IF tool = "explore-navigation" THEN RawMaxLinks
                   ELSE {[given |-> FALSE, value |-> Number(0, FALSE)]}) :
          \* line 100: rawMaxLinks ?? DEFAULT_MAX_LINKS
          maxLinks = IF raw.given THEN raw.value
                     ELSE Number(DEFAULT_MAX_LINKS, FALSE)
    /\ page = "none"
    /\ dropdown = site.initial
    /\ menuOpen = {}
    /\ overlays = site.overlays
    /\ errors = <<>>
    /\ sections = <<>>
    /\ totalLinksFound = 0
    /\ baseline = <<>>
    /\ primaryNavLinks = <<>>
    /\ footerLinks = <<>>
    /\ sel = 1
    /\ i = 0
    /\ count = 0
    /\ result = "none"
    /\ ret = [kind |-> "none"]
    /\ ran = {}
    /\ faults = {}
    /\ clicks = <<>>
    /\ NoFn
    /\ NoSession
    /\ main = "none"

(***************************************************************************)
(* session.getPage and page.close, as the tools see them.                  *)
(***************************************************************************)
\* getPage rejects: the await is outside every try block, so execute rejects.
GetPageThrows ==
    /\ page' = "none"
    /\ result' = "throw"
    /\ pc' = "done"
    /\ faults' = faults \cup {"getPage"}

\* const page = await getPage()  (first statement of each execute)
GetPage ==
    /\ pc = "getPage"
    /\ \/ /\ page' = "open"
          /\ pc' = "goto"
          /\ UNCHANGED << result, faults >>
       \/ GetPageThrows
    /\ UNCHANGED sessionVars
    /\ UNCHANGED << tool, site, maxLinks, ran >>
    /\ UNCHANGED << runVars, domVars, fnVars >>

\* The mutant of ClosePage: the page is left open.
ClosePageSkipped ==
    /\ page' = page
    /\ UNCHANGED << result, faults >>

\* page.close() in the finally block: it closes the page, or it rejects and
\* the rejection replaces the value being returned.
ClosePage ==
    \/ /\ page' = "closed"
       /\ UNCHANGED << result, faults >>
    \/ /\ page' \in {"open", "closed"}
       /\ result' = "throw"
       /\ faults' = faults \cup {"close"}

\* finally { await page.close(); }
Finally ==
    /\ pc = "finally"
    /\ ClosePage
    /\ pc' = "done"
    /\ UNCHANGED sessionVars
    /\ UNCHANGED << tool, site, maxLinks, ran >>
    /\ UNCHANGED << runVars, domVars, fnVars >>

(***************************************************************************)
(* explore-navigation: execute (part_000 lines 99-306).                    *)
(***************************************************************************)
IsExplore == tool = "explore-navigation"

\* A step of the outer try block throws: control goes to the top-level catch.
Throws(step) ==
    /\ pc' = "catch"
    /\ faults' = faults \cup {step}

\* A failure caught by an inner try block.
Swallowed(step) == faults' = faults \cup {step}

Report == [kind |-> "report", totalLinksFound |-> totalLinksFound,
           sections |-> sections, errors |-> errors]

\* The mutant of EmitSection: the links are not cut to the budget.
EmitSectionUncut(label, links, limit) ==
    /\ sections' = Append(sections, [label |-> label, links |-> links])
    /\ totalLinksFound' = totalLinksFound + Len(links)

\* sections.push({ label, links: list.slice(0, limit) });
\* totalLinksFound += links.length
EmitSection(label, list, limit) ==
    LET links == Slice0(list, ToInteger(limit)) IN
    /\ sections' = Append(sections, [label |-> label, links |-> links])
    /\ totalLinksFound' = totalLinksFound + Len(links)

\* await page.goto(url, ...): the response, and with it the HTTP status, is
\* discarded (line 108).
ExploreGoto ==
    /\ IsExplore /\ pc = "goto"
    /\ ran' = ran \cup {"Navigate"}
    /\ \/ pc' = "settle" /\ UNCHANGED faults
       \/ Throws("goto")
    /\ UNCHANGED sessionVars
    /\ UNCHANGED << tool, site, maxLinks, page, result >>
    /\ UNCHANGED << runVars, domVars, fnVars >>

\* await page.waitForTimeout(2000)  (line 109)
ExploreSettle ==
    /\ IsExplore /\ pc = "settle"
    /\ \/ pc' = "dismiss" /\ UNCHANGED faults
       \/ Throws("settle")
    /\ UNCHANGED sessionVars
    /\ UNCHANGED << tool, site, maxLinks, page, result, ran >>
    /\ UNCHANGED << runVars, domVars, fnVars >>

\* The mutant of dismissCookieBanners: a failing click is not caught and
\* reaches the top-level catch of execute.
dismissCookieBannersRaising ==
    /\ IsExplore /\ pc = "dismiss"
    /\ ran' = ran \cup {"Dismiss"}
    /\ IF sel > Len(cookieSelectors)
       THEN /\ pc' = "baseline" /\ sel' = 1
            /\ UNCHANGED << overlays, faults >>
       ELSE LET shown == OverlaysOf(cookieSelectors[sel])
                hit == CHOOSE o \in shown : TRUE
            IN  \/ \* isVisible throws
                   /\ Swallowed("dismiss")
                   /\ pc' = pc /\ sel' = sel + 1
                   /\ UNCHANGED overlays
                \/ \* not visible
                   /\ shown = {}
                   /\ pc' = pc /\ sel' = sel + 1
                   /\ UNCHANGED << overlays, faults >>
                \/ \* click throws
                   /\ shown # {}
                   /\ Throws("dismissClick")
                   /\ UNCHANGED << sel, overlays >>
                \/ \* clicked, then waitForTimeout throws
                   /\ shown # {}
                   /\ overlays' = overlays \ {hit}
                   /\ Swallowed("dismissClick")
                   /\ pc' = pc /\ sel' = sel + 1
                \/ \* clicked: return
                   /\ shown # {}
                   /\ overlays' = overlays \ {hit}
                   /\ pc' = "baseline" /\ sel' = 1
                   /\ UNCHANGED faults
    /\ UNCHANGED sessionVars
    /\ UNCHANGED << tool, site, maxLinks, page, result, dropdown, menuOpen >>
    /\ UNCHANGED << keyword, errors, sections, totalLinksFound, baseline,
                    primaryNavLinks, footerLinks, i, count, ret, clicks >>
    /\ UNCHANGED fnVars

\* dismissCookieBanners (lines 62-88), one iteration of its loop per step.
dismissCookieBanners ==
    /\ IsExplore /\ pc = "dismiss"
    /\ ran' = ran \cup {"Dismiss"}
    /\ IF sel > Len(cookieSelectors)
       THEN /\ pc' = "baseline" /\ sel' = 1
            /\ UNCHANGED << overlays, faults >>
       ELSE LET shown == OverlaysOf(cookieSelectors[sel])
                hit == CHOOSE o \in shown : TRUE
            IN  \/ \* isVisible throws
                   /\ Swallowed("dismiss")
                   /\ pc' = pc /\ sel' = sel + 1
                   /\ UNCHANGED overlays
                \/ \* not visible
                   /\ shown = {}
                   /\ pc' = pc /\ sel' = sel + 1
                   /\ UNCHANGED << overlays, faults >>
                \/ \* click throws
                   /\ shown # {}
                   /\ Swallowed("dismissClick")
                   /\ pc' = pc /\ sel' = sel + 1
                   /\ UNCHANGED overlays
                \/ \* clicked, then waitForTimeout throws
                   /\ shown # {}
                   /\ overlays' = overlays \ {hit}
                   /\ Swallowed("dismissClick")
                   /\ pc' = pc /\ sel' = sel + 1
                \/ \* clicked: return
                   /\ shown # {}
                   /\ overlays' = overlays \ {hit}
                   /\ pc' = "baseline" /\ sel' = 1
                   /\ UNCHANGED faults
    /\ UNCHANGED sessionVars
    /\ UNCHANGED << tool, site, maxLinks, page, result, dropdown, menuOpen >>
    /\ UNCHANGED << keyword, errors, sections, totalLinksFound, baseline,
                    primaryNavLinks, footerLinks, i, count, ret, clicks >>
    /\ UNCHANGED fnVars

\* const baseline = await collectLinks(page, url)  (line 115)
ExploreBaseline ==
    /\ IsExplore /\ pc = "baseline"
    /\ ran' = ran \cup {"Baseline"}
    /\ \/ /\ baseline' = collectLinks(EvaluateAll(Dom), BaseUrl)
          /\ pc' = "nav"
          /\ UNCHANGED faults
       \/ /\ Throws("baseline")
          /\ UNCHANGED baseline
    /\ UNCHANGED sessionVars
    /\ UNCHANGED << tool, site, maxLinks, page, result >>
    /\ UNCHANGED << keyword, errors, sections, totalLinksFound,
                    primaryNavLinks, footerLinks, sel, i, count, ret, clicks >>
    /\ UNCHANGED << domVars, fnVars >>

(***************************************************************************)
(* Primary Navigation Scan (lines 117-155).                                *)
(***************************************************************************)
\* The mutant of NavExcluded: the tel: test is missing.
NavExcludedNoTel(href) ==
    \/ StartsWith(href, JAVASCRIPT)
    \/ StartsWith(href, MAILTO)
    \/ href = HASH

\* The filter of the primary-nav loop (line 140).
NavExcluded(href) ==
    \/ StartsWith(href, JAVASCRIPT)
    \/ StartsWith(href, MAILTO)
    \/ StartsWith(href, TEL)
    \/ href = HASH

\* The mutant of NavAnchor: the test primaryNavLinks.has(resolved) is missing.
NavAnchorNoHas(map, a) ==
    IF NavExcluded(a.href) THEN map
    ELSE LET r == URLhref(a.href, BaseUrl) IN
         IF ~r.ok THEN map
         ELSE Append(map, LinkInfo(r.href, a.text, a.href))

\* One anchor of the primary-nav loop (lines 140-146).
NavAnchor(map, a) ==
    IF NavExcluded(a.href) THEN map
    ELSE LET r == URLhref(a.href, BaseUrl) IN
         IF ~r.ok THEN map
         ELSE IF MapHas(map, r.href) THEN map
         ELSE Append(map, LinkInfo(r.href, a.text, a.href))

RECURSIVE NavInto(_, _)
NavInto(map, raw) ==
    IF raw = <<>> THEN map ELSE NavInto(NavAnchor(map, Head(raw)), Tail(raw))

\* for (const sel of navSelectors) { try { evaluate; merge } catch {} }
ExploreNav ==
    /\ IsExplore /\ pc = "nav"
    /\ ran' = ran \cup {"PrimaryNav"}
    /\ IF sel > Len(navSelectors)
       THEN /\ pc' = "navEmit" /\ sel' = 1
            /\ UNCHANGED << primaryNavLinks, faults >>
       ELSE /\ pc' = pc /\ sel' = sel + 1
            /\ \/ /\ primaryNavLinks' =
                       NavInto(primaryNavLinks,
                               EvaluateSelector(Dom, navSelectors[sel]))
                  /\ UNCHANGED faults
               \/ /\ Swallowed("nav")
                  /\ UNCHANGED primaryNavLinks
    /\ UNCHANGED sessionVars
    /\ UNCHANGED << tool, site, maxLinks, page, result >>
    /\ UNCHANGED << keyword, errors, sections, totalLinksFound, baseline,
                    footerLinks, i, count, ret, clicks >>
    /\ UNCHANGED << domVars, fnVars >>

PrimaryNavLabel == <<"P","r","i","m","a","r","y"," ","N","a","v">>

\* if (primaryNavLinks.size > 0) { ... }  (lines 151-155)
ExploreNavEmit ==
    /\ IsExplore /\ pc = "navEmit"
    /\ IF Len(primaryNavLinks) > 0
       THEN EmitSection(PrimaryNavLabel, primaryNavLinks, maxLinks)
       ELSE UNCHANGED << sections, totalLinksFound >>
    /\ pc' = "hoverScope"
    /\ UNCHANGED sessionVars
    /\ UNCHANGED << tool, site, maxLinks, page, result, ran, faults >>
    /\ UNCHANGED << keyword, errors, baseline, primaryNavLinks, footerLinks,
                    sel, i, count, ret, clicks >>
    /\ UNCHANGED << domVars, fnVars >>

(***************************************************************************)
(* Hover Exploration (lines 157-203).                                      *)
(***************************************************************************)
\* String.prototype.trim and replace(/\s+/g, " "), for the space character.
RECURSIVE CollapseSpaces(_)
CollapseSpaces(s) ==
    IF Len(s) < 2 THEN s
    ELSE IF s[1] = " " /\ s[2] = " " THEN CollapseSpaces(Tail(s))
    ELSE <<Head(s)>> \o CollapseSpaces(Tail(s))

\* (textContent)?.trim().replace(/\s+/g, " ").slice(0, 50) || `Item ${i}`
ItemText(text, k) ==
    LET t == Slice0(CollapseSpaces(UrlTrim(text)), ItemTextMax)
    IN  IF t = <<>> THEN <<"I","t","e","m"," ">> \o NumberToString(k) ELSE t

DropdownLabel(text) == <<"D","r","o","p","d","o","w","n",":"," ">> \o text

\* The mutant of HoverLimit: every element the scope matches is processed.
HoverLimitUncapped(n) == n

\* Math.min(count, 15): the number of candidates a scope processes.
HoverLimit(n) == Min(n, HoverCap)

\* The line after the inner loop: if (totalLinksFound >= maxLinks) break
HoverScopeEnd ==
    IF AtLeast(totalLinksFound, maxLinks)
    THEN pc' = "hamburger" /\ sel' = 1
    ELSE pc' = "hoverScope" /\ sel' = sel + 1

\* const items = page.locator(sel); const count = await items.count()
ExploreHoverScope ==
    /\ IsExplore /\ pc = "hoverScope"
    /\ ran' = ran \cup {"Hover"}
    /\ IF sel > Len(hoverTargetSelectors)
       THEN /\ pc' = "hamburger" /\ sel' = 1
            /\ UNCHANGED << i, count, faults >>
       ELSE LET n == Len(HoverItems(hoverTargetSelectors[sel])) IN
            \/ \* count() throws: caught, then the check of line 202
               /\ Swallowed("hover")
               /\ HoverScopeEnd
               /\ UNCHANGED << i, count >>
            \/ \* if (count === 0) continue
               /\ n = 0
               /\ pc' = pc /\ sel' = sel + 1
               /\ UNCHANGED << i, count, faults >>
            \/ /\ n > 0
               /\ count' = n /\ i' = 0
               /\ pc' = "hoverItem" /\ sel' = sel
               /\ UNCHANGED faults
    /\ UNCHANGED sessionVars
    /\ UNCHANGED << tool, site, maxLinks, page, result >>
    /\ UNCHANGED << keyword, errors, sections, totalLinksFound, baseline,
                    primaryNavLinks, footerLinks, ret, clicks >>
    /\ UNCHANGED << domVars, fnVars >>

\* The mutant of ExploreHoverItem: the candidate is not in a try block of its
\* own, so its failure is caught by the scope and ends the scope.
ExploreHoverItemUnguarded ==
    /\ IsExplore /\ pc = "hoverItem"
    /\ IF i >= HoverLimit(count) \/ AtLeast(totalLinksFound, maxLinks)
       THEN /\ HoverScopeEnd
            /\ UNCHANGED << i, dropdown, sections, totalLinksFound, faults >>
       ELSE LET item == HoverItems(hoverTargetSelectors[sel])[i + 1]
                itemText == ItemText(item.text, i)
                beforeHover == collectLinks(EvaluateAll(Dom), BaseUrl)
                after == Hovered(dropdown, item)
                afterHover ==
                    collectLinks(EvaluateAll(DomOf(after, menuOpen)), BaseUrl)
                revealed == diffLinks(beforeHover, afterHover)
            IN  /\ i' = i + 1
                /\ \/ \* textContent, the first snapshot or hover throws
                      /\ Swallowed("hover")
                      /\ HoverScopeEnd
                      /\ UNCHANGED << dropdown, sections, totalLinksFound >>
                   \/ \* hovered; the wait or the second snapshot throws
                      /\ Swallowed("hover")
                      /\ HoverScopeEnd
                      /\ dropdown' = after
                      /\ UNCHANGED << sections, totalLinksFound >>
                   \/ /\ dropdown' = after
                      /\ pc' = pc /\ sel' = sel
                      /\ IF Len(revealed) > 0
                         THEN EmitSection(DropdownLabel(itemText), revealed,
                                          Minus(maxLinks, totalLinksFound))
                         ELSE UNCHANGED << sections, totalLinksFound >>
                      /\ UNCHANGED faults
    /\ UNCHANGED sessionVars
    /\ UNCHANGED << tool, site, maxLinks, page, result, ran >>
    /\ UNCHANGED << keyword, errors, baseline, primaryNavLinks, footerLinks,
                    count, ret, clicks >>
    /\ UNCHANGED << menuOpen, overlays, fnVars >>

\* One iteration of: for (let i = 0; i < Math.min(count, 15); i++) { ... }
ExploreHoverItem ==
    /\ IsExplore /\ pc = "hoverItem"
    /\ IF i >= HoverLimit(count) \/ AtLeast(totalLinksFound, maxLinks)
       THEN /\ HoverScopeEnd
            /\ UNCHANGED << i, dropdown, sections, totalLinksFound, faults >>
       ELSE LET item == HoverItems(hoverTargetSelectors[sel])[i + 1]
                itemText == ItemText(item.text, i)
                beforeHover == collectLinks(EvaluateAll(Dom), BaseUrl)
                after == Hovered(dropdown, item)
                afterHover ==
                    collectLinks(EvaluateAll(DomOf(after, menuOpen)), BaseUrl)
                revealed == diffLinks(beforeHover, afterHover)
            IN  /\ i' = i + 1
                /\ pc' = pc /\ sel' = sel
                /\ \/ \* textContent, the first snapshot or hover throws
                      /\ Swallowed("hover")
                      /\ UNCHANGED << dropdown, sections, totalLinksFound >>
                   \/ \* hovered; the wait or the second snapshot throws
                      /\ Swallowed("hover")
                      /\ dropdown' = after
                      /\ UNCHANGED << sections, totalLinksFound >>
                   \/ /\ dropdown' = after
                      /\ IF Len(revealed) > 0
                         THEN EmitSection(DropdownLabel(itemText), revealed,
                                          Minus(maxLinks, totalLinksFound))
                         ELSE UNCHANGED << sections, totalLinksFound >>
                      /\ UNCHANGED faults
    /\ UNCHANGED sessionVars
    /\ UNCHANGED << tool, site, maxLinks, page, result, ran >>
    /\ UNCHANGED << keyword, errors, baseline, primaryNavLinks, footerLinks,
                    count, ret, clicks >>
    /\ UNCHANGED << menuOpen, overlays, fnVars >>

(***************************************************************************)
(* Hamburger-Menu Exploration (lines 205-252).                             *)
(***************************************************************************)
HamburgerLabel == <<"M","o","b","i","l","e","/","H","a","m","b","u","r","g","e","r",
                    " ","M","e","n","u">>

Click(id, at) == [id |-> id, at |-> at]

\* One iteration of: for (const sel of hamburgerSelectors) { ... }
ExploreHamburger ==
    /\ IsExplore /\ pc = "hamburger"
    /\ ran' = ran \cup {"Hamburger"}
    /\ IF sel > Len(hamburgerSelectors) \/ AtLeast(totalLinksFound, maxLinks)
       THEN /\ pc' = "footerGuard" /\ sel' = 1
            /\ UNCHANGED << menuOpen, sections, totalLinksFound, faults, clicks >>
       ELSE LET found == {t \in Toggles(hamburgerSelectors[sel]) : t.visible}
                btn == CHOOSE t \in found : TRUE
                opened == Clicked(menuOpen, btn.id)
                beforeClick == collectLinks(EvaluateAll(Dom), BaseUrl)
                afterClick ==
                    collectLinks(EvaluateAll(DomOf(dropdown, opened)), BaseUrl)
                revealed == diffLinks(beforeClick, afterClick)
                emit == IF Len(revealed) > 0
                        THEN EmitSection(HamburgerLabel, revealed,
                                         Minus(maxLinks, totalLinksFound))
                        ELSE UNCHANGED << sections, totalLinksFound >>
            IN  \/ \* isVisible throws
                   /\ Swallowed("hamburger")
                   /\ pc' = pc /\ sel' = sel + 1
                   /\ UNCHANGED << menuOpen, sections, totalLinksFound, clicks >>
                \/ \* if (!isVisible) continue
                   /\ found = {}
                   /\ pc' = pc /\ sel' = sel + 1
                   /\ UNCHANGED << menuOpen, sections, totalLinksFound, faults,
                                   clicks >>
                \/ \* the first snapshot or the click throws
                   /\ found # {}
                   /\ Swallowed("hamburger")
                   /\ pc' = pc /\ sel' = sel + 1
                   /\ UNCHANGED << menuOpen, sections, totalLinksFound, clicks >>
                \/ \* clicked; the wait or the second snapshot throws
                   /\ found # {}
                   /\ menuOpen' = opened
                   /\ clicks' = Append(clicks, Click(btn.id, "open"))
                   /\ Swallowed("hamburger")
                   /\ pc' = pc /\ sel' = sel + 1
                   /\ UNCHANGED << sections, totalLinksFound >>
                \/ \* clicked and compared; the closing click throws (ignored)
                   /\ found # {}
                   /\ emit
                   /\ menuOpen' = opened
                   /\ clicks' = Append(clicks, Click(btn.id, "open"))
                   /\ Swallowed("hamburgerClose")
                   /\ pc' = "footerGuard" /\ sel' = 1
                \/ \* clicked, compared and clicked again; break
                   /\ found # {}
                   /\ emit
                   /\ menuOpen' = Clicked(opened, btn.id)
                   /\ clicks' = clicks \o << Click(btn.id, "open"),
                                             Click(btn.id, "close") >>
                   /\ pc' = "footerGuard" /\ sel' = 1
                   /\ UNCHANGED faults
    /\ UNCHANGED sessionVars
    /\ UNCHANGED << tool, site, maxLinks, page, result >>
    /\ UNCHANGED << keyword, errors, baseline, primaryNavLinks, footerLinks,
                    i, count, ret >>
    /\ UNCHANGED << dropdown, overlays, fnVars >>

(***************************************************************************)
(* Footer Scan (lines 254-294).                                            *)
(***************************************************************************)
FooterLabel == <<"F","o","o","t","e","r">>

\* The filter of the footer loop (line 274).
FooterExcluded(href) ==
    \/ StartsWith(href, JAVASCRIPT)
    \/ StartsWith(href, MAILTO)
    \/ StartsWith(href, TEL)
    \/ href = HASH

\* The mutant of FooterAnchor: the test against the primary-nav LinkSet is
\* missing.
FooterAnchorNoNav(map, a, nav) ==
    IF FooterExcluded(a.href) THEN map
    ELSE LET r == URLhref(a.href, BaseUrl) IN
         IF ~r.ok THEN map
         ELSE IF MapHas(map, r.href) THEN map
         ELSE Append(map, LinkInfo(r.href, a.text, a.href))

\* One anchor of the footer loop (lines 274-280).
FooterAnchor(map, a, nav) ==
    IF FooterExcluded(a.href) THEN map
    ELSE LET r == URLhref(a.href, BaseUrl) IN
         IF ~r.ok THEN map
         ELSE IF MapHas(map, r.href) \/ MapHas(nav, r.href) THEN map
         ELSE Append(map, LinkInfo(r.href, a.text, a.href))

RECURSIVE FooterInto(_, _, _)
FooterInto(map, raw, nav) ==
    IF raw = <<>> THEN map
    ELSE FooterInto(FooterAnchor(map, Head(raw), nav), Tail(raw), nav)

\* The mutant of ExploreFooterScroll: the scroll is not inside a try block of
\* its own, so its failure reaches the top-level catch.
ExploreFooterScrollUncaught ==
    /\ IsExplore /\ pc = "footerGuard"
    /\ IF Below(totalLinksFound, maxLinks)
       THEN /\ ran' = ran \cup {"Footer"}
            /\ \/ /\ pc' = "footer"
                  /\ footerLinks' = <<>>
                  /\ UNCHANGED faults
               \/ /\ Throws("footerScroll")
                  /\ UNCHANGED footerLinks
       ELSE /\ pc' = "return"
            /\ UNCHANGED << ran, faults, footerLinks >>
    /\ UNCHANGED sessionVars
    /\ UNCHANGED << tool, site, maxLinks, page, result >>
    /\ UNCHANGED << keyword, errors, sections, totalLinksFound, baseline,
                    primaryNavLinks, sel, i, count, ret, clicks >>
    /\ UNCHANGED << domVars, fnVars >>

\* The mutant of ExploreFooterScroll: the catch of the footer block pushes
\* nothing.
ExploreFooterScrollSilent ==
    /\ IsExplore /\ pc = "footerGuard"
    /\ IF Below(totalLinksFound, maxLinks)
       THEN /\ ran' = ran \cup {"Footer"}
            /\ \/ /\ pc' = "footer"
                  /\ footerLinks' = <<>>
                  /\ UNCHANGED << errors, faults >>
               \/ \* scrollTo or waitForTimeout throws
                  /\ errors' = errors
                  /\ faults' = faults \cup {"footerScroll"}
                  /\ pc' = "return"
                  /\ UNCHANGED footerLinks
       ELSE /\ pc' = "return"
            /\ UNCHANGED << ran, errors, faults, footerLinks >>
    /\ UNCHANGED sessionVars
    /\ UNCHANGED << tool, site, maxLinks, page, result >>
    /\ UNCHANGED << keyword, sections, totalLinksFound, baseline,
                    primaryNavLinks, sel, i, count, ret, clicks >>
    /\ UNCHANGED << domVars, fnVars >>

\* if (totalLinksFound < maxLinks) { try { scroll; wait; ... } catch { push } }
ExploreFooterScroll ==
    /\ IsExplore /\ pc = "footerGuard"
    /\ IF Below(totalLinksFound, maxLinks)
       THEN /\ ran' = ran \cup {"Footer"}
            /\ \/ /\ pc' = "footer"
                  /\ footerLinks' = <<>>
                  /\ UNCHANGED << errors, faults >>
               \/ \* scrollTo or waitForTimeout throws
                  /\ errors' = Append(errors, "Footer scroll failed")
                  /\ faults' = faults \cup {"footerScroll"}
                  /\ pc' = "return"
                  /\ UNCHANGED footerLinks
       ELSE /\ pc' = "return"
            /\ UNCHANGED << ran, errors, faults, footerLinks >>
    /\ UNCHANGED sessionVars
    /\ UNCHANGED << tool, site, maxLinks, page, result >>
    /\ UNCHANGED << keyword, sections, totalLinksFound, baseline,
                    primaryNavLinks, sel, i, count, ret, clicks >>
    /\ UNCHANGED << domVars, fnVars >>

\* for (const sel of footerSelectors) { try { evaluate; merge } catch {} }
ExploreFooter ==
    /\ IsExplore /\ pc = "footer"
    /\ IF sel > Len(footerSelectors)
       THEN /\ pc' = "footerEmit" /\ sel' = 1
            /\ UNCHANGED << footerLinks, faults >>
       ELSE /\ pc' = pc /\ sel' = sel + 1
            /\ \/ /\ footerLinks' =
                       FooterInto(footerLinks,
                                  EvaluateSelector(Dom, footerSelectors[sel]),
                                  primaryNavLinks)
                  /\ UNCHANGED faults
               \/ /\ Swallowed("footer")
                  /\ UNCHANGED footerLinks
    /\ UNCHANGED sessionVars
    /\ UNCHANGED << tool, site, maxLinks, page, result, ran >>
    /\ UNCHANGED << keyword, errors, sections, totalLinksFound, baseline,
                    primaryNavLinks, i, count, ret, clicks >>
    /\ UNCHANGED << domVars, fnVars >>

\* The mutant of ExploreFooterEmit: the Footer section is put in front of
\* the sections emitted so far.
ExploreFooterEmitFirst ==
    /\ IsExplore /\ pc = "footerEmit"
    /\ IF Len(footerLinks) > 0
       THEN LET links == Slice0(footerLinks,
                                ToInteger(Minus(maxLinks, totalLinksFound)))
            IN  /\ sections' = <<[label |-> FooterLabel, links |-> links]>>
                                   \o sections
                /\ totalLinksFound' = totalLinksFound + Len(links)
       ELSE UNCHANGED << sections, totalLinksFound >>
    /\ pc' = "return"
    /\ UNCHANGED sessionVars
    /\ UNCHANGED << tool, site, maxLinks, page, result, ran, faults >>
    /\ UNCHANGED << keyword, errors, baseline, primaryNavLinks, footerLinks,
                    sel, i, count, ret, clicks >>
    /\ UNCHANGED << domVars, fnVars >>

\* if (footerLinks.size > 0) { ... }  (lines 285-290)
ExploreFooterEmit ==
    /\ IsExplore /\ pc = "footerEmit"
    /\ IF Len(footerLinks) > 0
       THEN EmitSection(FooterLabel, footerLinks, Minus(maxLinks, totalLinksFound))
       ELSE UNCHANGED << sections, totalLinksFound >>
    /\ pc' = "return"
    /\ UNCHANGED sessionVars
    /\ UNCHANGED << tool, site, maxLinks, page, result, ran, faults >>
    /\ UNCHANGED << keyword, errors, baseline, primaryNavLinks, footerLinks,
                    sel, i, count, ret, clicks >>
    /\ UNCHANGED << domVars, fnVars >>

\* return { url, totalLinksFound, sections, errors }  (line 297)
ExploreReturn ==
    /\ IsExplore /\ pc = "return"
    /\ ret' = Report
    /\ result' = "value"
    /\ pc' = "finally"
    /\ UNCHANGED sessionVars
    /\ UNCHANGED << tool, site, maxLinks, page, ran, faults >>
    /\ UNCHANGED << keyword, errors, sections, totalLinksFound, baseline,
                    primaryNavLinks, footerLinks, sel, i, count, clicks >>
    /\ UNCHANGED << domVars, fnVars >>

\* catch (err) { errors.push(message); return { ... } }  (lines 298-302)
ExploreCatch ==
    /\ IsExplore /\ pc = "catch"
    /\ errors' = Append(errors, "message")
    /\ ret' = [Report EXCEPT !.errors = errors']
    /\ result' = "value"
    /\ pc' = "finally"
    /\ ran' = ran \cup {"Catch"}
    /\ UNCHANGED sessionVars
    /\ UNCHANGED << tool, site, maxLinks, page, faults >>
    /\ UNCHANGED << keyword, sections, totalLinksFound, baseline,
                    primaryNavLinks, footerLinks, sel, i, count, clicks >>
    /\ UNCHANGED << domVars, fnVars >>

Explore ==
    \/ ExploreGoto \/ ExploreSettle \/ dismissCookieBanners \/ ExploreBaseline
    \/ ExploreNav \/ ExploreNavEmit \/ ExploreHoverScope \/ ExploreHoverItem
    \/ ExploreHamburger \/ ExploreFooterScroll \/ ExploreFooter
    \/ ExploreFooterEmit \/ ExploreReturn \/ ExploreCatch

(***************************************************************************)
(* search-for-page: execute (searchForPage.ts lines 17-68).                *)
(***************************************************************************)
IsSearch == tool = "search-for-page"

\* The filter of search-for-page (line 45).
SearchSkipped(href) ==
    \/ StartsWith(href, JAVASCRIPT)
    \/ StartsWith(href, MAILTO)
    \/ StartsWith(href, HASH)

Match(resolved, text) == [url |-> resolved, linkText |-> text]

SeenHas(matches, url) == \E k \in 1..Len(matches) : matches[k].url = url

\* The mutant of SearchInto: the loop does not stop at MAX_MATCHES.
RECURSIVE SearchIntoUncapped(_, _, _)
SearchIntoUncapped(matches, links, kw) ==
    IF links = <<>> THEN matches
    ELSE LET a == Head(links)
             r == URLhref(a.href, BaseUrl)
         IN  IF SearchSkipped(a.href) \/ ~r.ok
                 \/ SeenHas(matches, r.href)
                 \/ ~(Includes(ToLowerCase(r.href), kw)
                        \/ Includes(ToLowerCase(a.text), kw))
             THEN SearchIntoUncapped(matches, Tail(links), kw)
             ELSE SearchIntoUncapped(Append(matches, Match(r.href, a.text)),
                                     Tail(links), kw)

\* The loop of lines 44-57; seen holds exactly the URLs of matches.
RECURSIVE SearchInto(_, _, _)
SearchInto(matches, links, kw) ==
    IF links = <<>> THEN matches
    ELSE LET a == Head(links)
             r == URLhref(a.href, BaseUrl)
         IN  IF SearchSkipped(a.href) \/ ~r.ok
                 \/ SeenHas(matches, r.href)
                 \/ ~(Includes(ToLowerCase(r.href), kw)
                        \/ Includes(ToLowerCase(a.text), kw))
             THEN SearchInto(matches, Tail(links), kw)
             ELSE IF Len(matches) + 1 >= MAX_MATCHES
             THEN Append(matches, Match(r.href, a.text))
             ELSE SearchInto(Append(matches, Match(r.href, a.text)),
                             Tail(links), kw)

SearchResult(matches) == [kind |-> "search", matches |-> matches]

\* catch (err) { return { baseUrl, keyword, matches: [] } }
SearchCatch(step) ==
    /\ faults' = faults \cup {step}
    /\ ret' = SearchResult(<<>>)
    /\ result' = "value"
    /\ pc' = "finally"

\* await page.goto(baseUrl, ...)  (line 22)
SearchGoto ==
    /\ IsSearch /\ pc = "goto"
    /\ \/ pc' = "settle" /\ UNCHANGED << faults, ret, result >>
       \/ SearchCatch("goto")
    /\ UNCHANGED sessionVars
    /\ UNCHANGED << tool, site, maxLinks, page, ran >>
    /\ UNCHANGED << keyword, errors, sections, totalLinksFound, baseline,
                    primaryNavLinks, footerLinks, sel, i, count, clicks >>
    /\ UNCHANGED << domVars, fnVars >>

\* await page.waitForTimeout(2000)  (line 25)
SearchSettle ==
    /\ IsSearch /\ pc = "settle"
    /\ \/ pc' = "evaluate" /\ UNCHANGED << faults, ret, result >>
       \/ SearchCatch("settle")
    /\ UNCHANGED sessionVars
    /\ UNCHANGED << tool, site, maxLinks, page, ran >>
    /\ UNCHANGED << keyword, errors, sections, totalLinksFound, baseline,
                    primaryNavLinks, footerLinks, sel, i, count, clicks >>
    /\ UNCHANGED << domVars, fnVars >>

\* page.evaluate, the filter loop and the return  (lines 30-60)
SearchEvaluate ==
    /\ IsSearch /\ pc = "evaluate"
    /\ \/ /\ ret' = SearchResult(SearchInto(<<>>, EvaluateAll(Dom),
                                            ToLowerCase(keyword)))
          /\ result' = "value"
          /\ pc' = "finally"
          /\ UNCHANGED faults
       \/ SearchCatch("evaluate")
    /\ UNCHANGED sessionVars
    /\ UNCHANGED << tool, site, maxLinks, page, ran >>
    /\ UNCHANGED << keyword, errors, sections, totalLinksFound, baseline,
                    primaryNavLinks, footerLinks, sel, i, count, clicks >>
    /\ UNCHANGED << domVars, fnVars >>

Search == SearchGoto \/ SearchSettle \/ SearchEvaluate

(***************************************************************************)
(* scrape-url: execute (scrapeUrl.ts lines 19-51).  A content string is    *)
(* modelled by what produced it and its length.                            *)
(***************************************************************************)
IsScrape == tool = "scrape-url"

ScrapeResult(title, what, len, truncated) ==
    [kind |-> "scrape", title |-> title, content |-> what, length |-> len,
     truncated |-> truncated]

\* "Page returned HTTP 404" and "Navigation error: " (lines 27 and 47); the
\* error's own message follows the latter.
HttpMessageLen == 22
ErrorPrefixLen == 18

\* The lengths of err.message: nothing in the code bounds it (Playwright puts
\* the URL being navigated to into it).  The model takes the short messages
\* and the two lengths at which the content reaches and passes MAX_CHARS.
MessageLens ==
    (0..MaxMessageLen)
        \cup {MAX_CHARS - ErrorPrefixLen, MAX_CHARS - ErrorPrefixLen + 1}

\* catch (err) { return { url, title: "", content: ..., truncated: false } }
ScrapeCatch(step) ==
    /\ faults' = faults \cup {step}
    /\ \E n \in MessageLens :
          ret' = ScrapeResult(<<>>, "Navigation error", ErrorPrefixLen + n, FALSE)
    /\ result' = "value"
    /\ pc' = "finally"

\* const response = await page.goto(...); the status check  (lines 24-28)
ScrapeGoto ==
    /\ IsScrape /\ pc = "goto"
    /\ \/ \* no response object, or a status below 400
          /\ \E response \in {"null", "response"} :
                response = "response" => site.status < HttpErrorMin
          /\ pc' = "settle"
          /\ UNCHANGED << faults, ret, result >>
       \/ /\ site.status >= HttpErrorMin
          /\ ret' = ScrapeResult(<<>>, "Page returned HTTP", HttpMessageLen, FALSE)
          /\ result' = "value"
          /\ pc' = "finally"
          /\ UNCHANGED faults
       \/ ScrapeCatch("goto")
    /\ UNCHANGED sessionVars
    /\ UNCHANGED << tool, site, maxLinks, page, ran >>
    /\ UNCHANGED << keyword, errors, sections, totalLinksFound, baseline,
                    primaryNavLinks, footerLinks, sel, i, count, clicks >>
    /\ UNCHANGED << domVars, fnVars >>

\* await page.waitForTimeout(2000)  (line 31)
ScrapeSettle ==
    /\ IsScrape /\ pc = "settle"
    /\ \/ pc' = "content" /\ UNCHANGED << faults, ret, result >>
       \/ ScrapeCatch("settle")
    /\ UNCHANGED sessionVars
    /\ UNCHANGED << tool, site, maxLinks, page, ran >>
    /\ UNCHANGED << keyword, errors, sections, totalLinksFound, baseline,
                    primaryNavLinks, footerLinks, sel, i, count, clicks >>
    /\ UNCHANGED << domVars, fnVars >>

\* title, content, turndown, truncation and the return  (lines 33-43)
ScrapeContent ==
    /\ IsScrape /\ pc = "content"
    /\ \/ LET truncated == site.mdLen > MAX_CHARS
              len == IF truncated THEN Min(site.mdLen, MAX_CHARS) ELSE site.mdLen
          IN  /\ ret' = ScrapeResult(site.title, "markdown", len, truncated)
              /\ result' = "value"
              /\ pc' = "finally"
              /\ UNCHANGED faults
       \/ ScrapeCatch("content")
    /\ UNCHANGED sessionVars
    /\ UNCHANGED << tool, site, maxLinks, page, ran >>
    /\ UNCHANGED << keyword, errors, sections, totalLinksFound, baseline,
                    primaryNavLinks, footerLinks, sel, i, count, clicks >>
    /\ UNCHANGED << domVars, fnVars >>

Scrape == ScrapeGoto \/ ScrapeSettle \/ ScrapeContent

(***************************************************************************)
(* One tool call, from getPage to the end of execute.                      *)
(***************************************************************************)
Next == GetPage \/ Explore \/ Search \/ Scrape \/ Finally

Spec == Init /\ [][Next]_vars

\* The explore-navigation runs on the empty page and on the pages with
\* menus to hover and toggles to click.  A run goes on to its end when every browser operation it
\* awaits settles: each await resumes the function, so a step that can be
\* taken is taken.
LiveSites == {NoSite, SiteHover, SitePortal, SiteWide}
InitExplore == Init /\ IsExplore /\ site \in LiveSites
NextExplore == GetPage \/ Explore \/ Finally
SpecExplore == InitExplore /\ [][NextExplore]_vars /\ WF_vars(NextExplore)

(***************************************************************************)
(* The pure functions on their own: collectLinks applied to a raw anchor   *)
(* list, and diffLinks applied to two LinkSets that collectLinks built.    *)
(***************************************************************************)
RawAnchor(href, text) == [href |-> href, text |-> text]

CollectPool ==
    {RawAnchor(h, t) :
        h \in {H_a, H_aRel, H_b, H_frag, H_empty, H_js, H_mail, H_tel,
               H_telSpace, HASH, H_bad},
        t \in {T_A, T_B}}
        \cup {RawAnchor(H_a, T_long)}

DiffPool ==
    {RawAnchor(H_a, T_A), RawAnchor(H_aRel, T_B), RawAnchor(H_b, T_A),
     RawAnchor(H_b, T_B), RawAnchor(H_c, T_A)}

ListsOver(pool) == UNION {[1..n -> pool] : n \in 0..MaxRaw}

InitFn ==
    /\ tool = "none"
    /\ site = NoSite
    /\ keyword = <<>>
    /\ maxLinks = Number(DEFAULT_MAX_LINKS, FALSE)
    /\ page = "none"
    /\ dropdown = <<>>
    /\ menuOpen = {}
    /\ overlays = {}
    /\ errors = <<>>
    /\ sections = <<>>
    /\ totalLinksFound = 0
    /\ baseline = <<>>
    /\ primaryNavLinks = <<>>
    /\ footerLinks = <<>>
    /\ sel = 1
    /\ i = 0
    /\ count = 0
    /\ result = "none"
    /\ ret = [kind |-> "none"]
    /\ ran = {}
    /\ faults = {}
    /\ clicks = <<>>
    /\ out = <<>>
    /\ NoSession
    /\ main = "none"
    /\ \/ /\ pc = "collect"
          /\ argA \in ListsOver(CollectPool)
          /\ argB = <<>>
       \/ /\ pc = "diff"
          /\ argA \in ListsOver(DiffPool)
          /\ argB \in ListsOver(DiffPool)

\* out = collectLinks(raw, url)
ApplyCollect ==
    /\ pc = "collect"
    /\ out' = collectLinks(argA, BaseUrl)
    /\ pc' = "collected"
    /\ UNCHANGED sessionVars
    /\ UNCHANGED << tool, site, maxLinks, page, result, ran, faults >>
    /\ UNCHANGED << runVars, domVars, argA, argB >>

\* out = diffLinks(before, after), on two snapshots
ApplyDiff ==
    /\ pc = "diff"
    /\ out' = diffLinks(collectLinks(argA, BaseUrl), collectLinks(argB, BaseUrl))
    /\ pc' = "diffed"
    /\ UNCHANGED sessionVars
    /\ UNCHANGED << tool, site, maxLinks, page, result, ran, faults >>
    /\ UNCHANGED << runVars, domVars, argA, argB >>

NextFn == ApplyCollect \/ ApplyDiff

SpecFn == InitFn /\ [][NextFn]_vars

(***************************************************************************)
(* session.ts (here searchForPage.ts lines 71-147) and index.ts's main     *)
(* function.                                                               *)
(*                                                                         *)
(* A promise is identified with what it is a promise for: sessionPromise   *)
(* is the number of a session, pending while client.sessions.create is in  *)
(* flight; browserPromise is the number of a run of the connecting         *)
(* function of getBrowser.  A continuation that waits for a promise runs   *)
(* in the step that settles it, or at once when it is settled already, as  *)
(* microtasks do.                                                          *)
(*   sessions[k]   "pending", "live", "failed" (create rejected),          *)
(*                 "released"                                              *)
(*   browsers[b]   sess: the session it connects to; state: "awaitSession",*)
(*                 "connecting", "open", "closed" (by browser.close()),    *)
(*                 "failed"; dialled: connectOverCDP was called;           *)
(*                 contexts: how many contexts the browser has             *)
(***************************************************************************)
\* Bound on the number of calls the tool callers make.
MaxCalls == 3

ToolCallers == Callers \ {"main"}

\* The process is running: main has neither returned nor called process.exit.
Alive == main \notin {"exited", "end"}

\* The mutant of getSession: the test of sessionPromise is missing.
getSessionAlwaysCreates ==
    [promise |-> Len(sessions) + 1, sessions |-> Append(sessions, "pending")]

\* getSession (lines 88-99): the promise it returns, and the sessions asked
\* for once it has run.
getSession ==
    IF sessionPromise = 0
    THEN [promise |-> Len(sessions) + 1, sessions |-> Append(sessions, "pending")]
    ELSE [promise |-> sessionPromise, sessions |-> sessions]

\* Where the connecting function stands once `await getSession()` is over.
Dialled(st) ==
    CASE st = "pending" -> "awaitSession"
      [] st = "failed" -> "failed"
      [] OTHER -> "connecting"

NewBrowser(k, st) ==
    [sess |-> k, state |-> Dialled(st), dialled |-> Dialled(st) = "connecting",
     contexts |-> 0]

\* getBrowser (lines 107-118), up to the first await that has to wait.
getBrowser ==
    IF browserPromise = 0
    THEN LET s == getSession IN
         [promise |-> Len(browsers) + 1,
          browsers |-> Append(browsers,
                              NewBrowser(s.promise, s.sessions[s.promise])),
          sessionPromise |-> s.promise,
          sessions |-> s.sessions]
    ELSE [promise |-> browserPromise, browsers |-> browsers,
          sessionPromise |-> sessionPromise, sessions |-> sessions]

\* What a settled session promise gives.
SessionOutcome(ss, k) == IF ss[k] = "failed" THEN Rejected ELSE SessionValue(k)

\* A caller whose session promise has settled: getSession returns; the
\* releaseSession of line 142 goes on to client.sessions.release.
OnSession(c, ss) ==
    IF c.op = "releaseSession"
    THEN IF ss[c.on] = "failed" THEN Idle(Rejected) ELSE [c EXCEPT !.pc = "release"]
    ELSE Idle(SessionOutcome(ss, c.on))

\* A caller whose browser promise has settled: getBrowser returns; getPage
\* (lines 125-130) takes contexts[0] or asks for a new context.
OnBrowser(c, bs) ==
    IF bs[c.on].state = "failed" THEN Idle(Rejected)
    ELSE IF c.op = "getBrowser" THEN Idle(BrowserValue(c.on))
    ELSE IF bs[c.on].contexts > 0 THEN [c EXCEPT !.pc = "newPage", !.ctx = 1]
    ELSE [c EXCEPT !.pc = "newContext"]

\* A caller after the promises it may be waiting for were looked at.
Resumed(c, ss, bs) ==
    IF c.pc \in {"session", "awaitSession"} /\ ss[c.on] # "pending"
    THEN OnSession(c, ss)
    ELSE IF c.pc = "browser" /\ bs[c.on].state \in {"open", "closed", "failed"}
    THEN OnBrowser(c, bs)
    ELSE c

\* The end of a step: every continuation that can run runs, and the calls
\* that ended are recorded.  was holds the callers with the calls that were
\* in flight or were made in this step, now what this step made of them.
Settle(was, now, ss, bs) ==
    /\ callers' = [p \in Callers |-> Resumed(now[p], ss, bs)]
    /\ returned' = returned \cup
          {[caller |-> p, op |-> was[p].op, value |-> callers'[p].got] :
              p \in {q \in Callers : was[q].op # "idle" /\ callers'[q].op = "idle"}}
    /\ swept' = IF \E p \in Callers :
                      /\ was[p].op = "releaseSession"
                      /\ callers'[p].op = "idle"
                      /\ callers'[p].got = Void
                THEN [done |-> TRUE, browsers |-> Len(bs), sessions |-> Len(ss)]
                ELSE swept

\* A tool caller may make a call.
CanCall(p) ==
    /\ Alive
    /\ p \in ToolCallers
    /\ callers[p].op = "idle"
    /\ calls < MaxCalls

\* p calls getSession().
CallGetSession(p) ==
    LET s == getSession
        now == [callers EXCEPT ![p] = Awaiting("getSession", "session", s.promise)]
    IN  /\ sessionPromise' = s.promise
        /\ sessions' = s.sessions
        /\ Settle(now, now, s.sessions, browsers)
        /\ UNCHANGED << browser, browserPromise, browsers, pages, releaseCalled >>

\* p calls getBrowser() (op = "getBrowser") or getPage() (op = "getPage").
CallGetBrowser(p, op) ==
    LET g == getBrowser
        now == [callers EXCEPT ![p] = Awaiting(op, "browser", g.promise)]
    IN  /\ browserPromise' = g.promise
        /\ browsers' = g.browsers
        /\ sessionPromise' = g.sessionPromise
        /\ sessions' = g.sessions
        /\ Settle(now, now, g.sessions, g.browsers)
        /\ UNCHANGED << browser, pages, releaseCalled >>

\* The rest of releaseSession once the browser is dealt with (lines 141-146).
ReleaseRest(sp) ==
    IF sp = 0 THEN Idle(Void) ELSE Awaiting("releaseSession", "awaitSession", sp)

\* p calls releaseSession() (lines 136-147): browser.close() if browser is
\* set, else straight on to the session.
CallReleaseSession(p) ==
    LET was == [callers EXCEPT ![p] = Awaiting("releaseSession", "close", browser)]
        now == IF browser # 0 THEN was
               ELSE [callers EXCEPT ![p] = ReleaseRest(sessionPromise)]
    IN  /\ releaseCalled' = TRUE
        /\ Settle(was, now, sessions, browsers)
        /\ UNCHANGED << sessionPromise, browser, browserPromise, sessions,
                        browsers, pages >>

\* A tool caller calls one of the functions session.ts exports.  While
\* index.ts's main is running the tools call getPage only, during
\* agent.generate.
ToolCall ==
    \E p \in ToolCallers :
        /\ CanCall(p)
        /\ calls' = calls + 1
        /\ \/ main = "none" /\ CallGetSession(p)
           \/ main = "none" /\ CallGetBrowser(p, "getBrowser")
           \/ main \in {"none", "generate"} /\ CallGetBrowser(p, "getPage")
           \/ main = "none" /\ CallReleaseSession(p)
        /\ UNCHANGED main
        /\ UNCHANGED toolVars

\* client.sessions.create settles; the connecting function that waited for
\* it goes on to chromium.connectOverCDP.
SessionCreateSettles ==
    /\ Alive
    /\ \E k \in DOMAIN sessions :
          /\ sessions[k] = "pending"
          /\ \E outcome \in {"live", "failed"} :
                LET ss == [sessions EXCEPT ![k] = outcome]
                    bs == [b \in DOMAIN browsers |->
                             IF browsers[b].state = "awaitSession"
                                  /\ browsers[b].sess = k
                             THEN NewBrowser(k, outcome)
                             ELSE browsers[b]]
                IN  /\ sessions' = ss
                    /\ browsers' = bs
                    /\ Settle(callers, callers, ss, bs)
    /\ UNCHANGED << sessionPromise, browser, browserPromise, pages, calls, main,
                    releaseCalled >>
    /\ UNCHANGED toolVars

\* chromium.connectOverCDP settles: browser = await ...; return browser.
ConnectSettles ==
    /\ Alive
    /\ \E b \in DOMAIN browsers :
          /\ browsers[b].state = "connecting"
          /\ \/ \E n \in {0, 1} :
                   /\ browsers' = [browsers EXCEPT ![b].state = "open",
                                                    ![b].contexts = n]
                   /\ browser' = b
             \/ /\ browsers' = [browsers EXCEPT ![b].state = "failed"]
                /\ UNCHANGED browser
    /\ Settle(callers, callers, sessions, browsers')
    /\ UNCHANGED << sessionPromise, browserPromise, sessions, pages, calls,
                    main, releaseCalled >>
    /\ UNCHANGED toolVars

\* getPage: await b.newContext() settles (line 127).
NewContextSettles ==
    /\ Alive
    /\ \E p \in Callers :
          /\ callers[p].pc = "newContext"
          /\ LET b == callers[p].on IN
             \/ /\ browsers[b].state = "open"
                /\ browsers' = [browsers EXCEPT ![b].contexts = @ + 1]
                /\ Settle(callers,
                          [callers EXCEPT ![p].pc = "newPage",
                                          ![p].ctx = browsers[b].contexts + 1],
                          sessions, browsers')
             \/ /\ UNCHANGED browsers
                /\ Settle(callers, [callers EXCEPT ![p] = Idle(Rejected)],
                          sessions, browsers)
    /\ UNCHANGED << sessionPromise, browser, browserPromise, sessions, pages,
                    calls, main, releaseCalled >>
    /\ UNCHANGED toolVars

\* getPage: context.newPage() settles (line 129).
NewPageSettles ==
    /\ Alive
    /\ \E p \in Callers :
          /\ callers[p].pc = "newPage"
          /\ LET c == callers[p] IN
             \/ /\ browsers[c.on].state = "open"
                /\ pages' = Append(pages, [browser |-> c.on, context |-> c.ctx])
                /\ Settle(callers,
                          [callers EXCEPT ![p] = Idle(PageValue(Len(pages) + 1))],
                          sessions, browsers)
             \/ /\ UNCHANGED pages
                /\ Settle(callers, [callers EXCEPT ![p] = Idle(Rejected)],
                          sessions, browsers)
    /\ UNCHANGED << sessionPromise, browser, browserPromise, sessions, browsers,
                    calls, main, releaseCalled >>
    /\ UNCHANGED toolVars

\* releaseSession: await browser.close() settles; browser = null (lines
\* 138-139), then the session part.
CloseSettles ==
    /\ Alive
    /\ \E p \in Callers :
          /\ callers[p].pc = "close"
          /\ \/ /\ browsers' = [browsers EXCEPT ![callers[p].on].state = "closed",
                                                 ![callers[p].on].contexts = 0]
                /\ browser' = 0
                /\ Settle(callers,
                          [callers EXCEPT ![p] = ReleaseRest(sessionPromise)],
                          sessions, browsers')
             \/ /\ UNCHANGED << browsers, browser >>
                /\ Settle(callers, [callers EXCEPT ![p] = Idle(Rejected)],
                          sessions, browsers)
    /\ UNCHANGED << sessionPromise, browserPromise, sessions, pages, calls, main,
                    releaseCalled >>
    /\ UNCHANGED toolVars

\* releaseSession: await client.sessions.release(session.id) settles;
\* sessionPromise = null (lines 143-145).
ReleaseSettles ==
    /\ Alive
    /\ \E p \in Callers :
          /\ callers[p].pc = "release"
          /\ \/ /\ sessions' = [sessions EXCEPT ![callers[p].on] = "released"]
                /\ sessionPromise' = 0
                /\ Settle(callers, [callers EXCEPT ![p] = Idle(Void)],
                          sessions', browsers)
             \/ /\ UNCHANGED << sessions, sessionPromise >>
                /\ Settle(callers, [callers EXCEPT ![p] = Idle(Rejected)],
                          sessions, browsers)
    /\ UNCHANGED << browser, browserPromise, browsers, pages, calls, main,
                    releaseCalled >>
    /\ UNCHANGED toolVars

\* index.ts line 26: await getSession()
MainStart ==
    /\ main = "start"
    /\ CallGetSession("main")
    /\ main' = "warm"
    /\ UNCHANGED calls
    /\ UNCHANGED toolVars

\* index.ts lines 26-37: getSession() has settled; a rejection goes to catch.
MainWarmed ==
    /\ main = "warm"
    /\ callers["main"].op = "idle"
    /\ main' = IF callers["main"].got = Rejected THEN "catch" ELSE "generate"
    /\ UNCHANGED << sessionPromise, browser, browserPromise, sessions, browsers,
                    pages, callers, calls, returned, releaseCalled, swept >>
    /\ UNCHANGED toolVars

\* index.ts lines 37-62: agent.generate resolves, once its tool calls are
\* over, or rejects.
MainGenerate ==
    /\ main = "generate"
    /\ \/ /\ \A p \in ToolCallers : callers[p].op = "idle"
          /\ main' = "finally"
       \/ main' = "catch"
    /\ UNCHANGED << sessionPromise, browser, browserPromise, sessions, browsers,
                    pages, callers, calls, returned, releaseCalled, swept >>
    /\ UNCHANGED toolVars

\* index.ts lines 63-65: catch (err) { console.error(...); process.exit(1) }
MainCatch ==
    /\ main = "catch"
    /\ main' = "exited"
    /\ UNCHANGED << sessionPromise, browser, browserPromise, sessions, browsers,
                    pages, callers, calls, returned, releaseCalled, swept >>
    /\ UNCHANGED toolVars

\* index.ts lines 66-68: finally { await releaseSession() }
MainFinally ==
    /\ main = "finally"
    /\ CallReleaseSession("main")
    /\ main' = "releasing"
    /\ UNCHANGED calls
    /\ UNCHANGED toolVars

\* The main function is over: releaseSession() has settled.
MainEnd ==
    /\ main = "releasing"
    /\ callers["main"].op = "idle"
    /\ main' = "end"
    /\ UNCHANGED << sessionPromise, browser, browserPromise, sessions, browsers,
                    pages, callers, calls, returned, releaseCalled, swept >>
    /\ UNCHANGED toolVars

Main == MainStart \/ MainWarmed \/ MainGenerate \/ MainCatch \/ MainFinally
            \/ MainEnd

\* session.ts under its callers: either the functions it exports called in
\* any order by two concurrent callers, or one run of index.ts.
InitSession ==
    /\ tool = "none"
    /\ pc = "session"
    /\ site = NoSite
    /\ keyword = <<>>
    /\ maxLinks = Number(DEFAULT_MAX_LINKS, FALSE)
    /\ page = "none"
    /\ dropdown = <<>>
    /\ menuOpen = {}
    /\ overlays = {}
    /\ errors = <<>>
    /\ sections = <<>>
    /\ totalLinksFound = 0
    /\ baseline = <<>>
    /\ primaryNavLinks = <<>>
    /\ footerLinks = <<>>
    /\ sel = 1
    /\ i = 0
    /\ count = 0
    /\ result = "none"
    /\ ret = [kind |-> "none"]
    /\ ran = {}
    /\ faults = {}
    /\ clicks = <<>>
    /\ NoFn
    /\ NoSession
    /\ main \in {"none", "start"}

NextSession ==
    \/ ToolCall \/ SessionCreateSettles \/ ConnectSettles \/ NewContextSettles
    \/ NewPageSettles \/ CloseSettles \/ ReleaseSettles \/ Main

SpecSession == InitSession /\ [][NextSession]_vars

(***************************************************************************)
(* Properties.                                                             *)
(***************************************************************************)
RECURSIVE SumLinks(_)
SumLinks(secs) ==
    IF secs = <<>> THEN 0 ELSE Len(Head(secs).links) + SumLinks(Tail(secs))

Keys(map) == {map[k].url : k \in 1..Len(map)}

\* The hrefs the exclusion filter is specified to drop.
SpecExcluded(href) ==
    \/ StartsWith(href, JAVASCRIPT) \/ StartsWith(href, MAILTO)
    \/ StartsWith(href, TEL) \/ href = HASH

\* The anchors the collector is specified to keep, and their URLs.
Kept(a) == ~SpecExcluded(a.href) /\ URLhref(a.href, BaseUrl).ok
KeptUrls(anchors) ==
    {URLhref(anchors[k].href, BaseUrl).href :
        k \in {j \in 1..Len(anchors) : Kept(anchors[j])}}

Finished == pc = "done"
Returned == pc = "done" /\ result = "value"

\* C1: in an explore-navigation run with a positive integer maxLinks,
\* totalLinksFound never exceeds maxLinks and always equals the sum of the
\* link counts of the sections emitted so far; the same holds of the report.
C1_BudgetRespected ==
    (IsExplore /\ IsPositiveInteger(maxLinks)) =>
        /\ totalLinksFound <= maxLinks.floor
        /\ totalLinksFound = SumLinks(sections)
        /\ ret.kind = "report" =>
              /\ ret.totalLinksFound <= maxLinks.floor
              /\ ret.totalLinksFound = SumLinks(ret.sections)

\* C1 witness: a returned report that used the whole budget of 3 in two
\* sections, the second one cut short.
C1_Witness ==
    /\ IsExplore /\ Returned /\ maxLinks = Number(3, FALSE)
    /\ ret.totalLinksFound = 3 /\ Len(ret.sections) = 2
    /\ Len(footerLinks) > Len(ret.sections[2].links)

\* C2 (as claimed): every section an explore-navigation run emits, and so
\* every section of a returned report, has at least one link, whatever
\* maxLinks the input schema admitted.
C2_NoEmptySections ==
    IsExplore =>
        /\ \A k \in 1..Len(sections) : Len(sections[k].links) >= 1
        /\ Returned =>
              \A k \in 1..Len(ret.sections) : Len(ret.sections[k].links) >= 1

\* C3 (as claimed): every explore-navigation call ends by returning a report;
\* no failure of a browser or session operation leaves it as an exception.
C3_AlwaysReturnsReport ==
    (IsExplore /\ Finished) => (result = "value" /\ ret.kind = "report")

\* C4: a failed initial navigation yields a report with no sections, a count
\* of 0 and exactly one error; every report that comes out of the top-level
\* catch has no sections.
C4_FatalFailureReport ==
    IsExplore =>
        /\ "Catch" \in ran => sections = <<>>
        /\ ("Catch" \in ran /\ ret.kind = "report") => ret.sections = <<>>
        /\ (Returned /\ "goto" \in faults) =>
              /\ ret.sections = <<>>
              /\ ret.totalLinksFound = 0
              /\ Len(ret.errors) = 1

\* C4 witness: a run whose page.goto failed has returned its report.
C4_Witness ==
    /\ IsExplore /\ Returned /\ "goto" \in faults
    /\ "Catch" \in ran /\ ret.errors = <<"message">>

\* C5 (as claimed): on an HTTP error status the run aborts at once: no phase
\* after Navigate is entered, no section is emitted, and the report that is
\* returned records the failure.
C5_HttpErrorAborts ==
    (IsExplore /\ site.status >= HttpErrorMin) =>
        /\ ran \subseteq {"Navigate", "Catch"}
        /\ sections = <<>>
        /\ Returned => (ret.sections = <<>> /\ ret.errors # <<>>)

\* C6 (as claimed): only a failed Navigate step aborts a run; when page.goto
\* succeeded, every later phase is entered and the top-level catch is not.
C6_OnlyNavigateAborts ==
    (IsExplore /\ Finished /\ faults \cap {"getPage", "goto"} = {}) =>
        /\ {"Dismiss", "Baseline", "PrimaryNav", "Hover", "Hamburger"}
               \subseteq ran
        /\ "Catch" \notin ran

C8_DiffCorrect ==
    pc = "diffed" =>
        LET A == collectLinks(argA, BaseUrl)
            B == collectLinks(argB, BaseUrl)
            new == {j \in 1..Len(B) : B[j].url \notin Keys(A)}
            at(k) == CHOOSE j \in 1..Len(B) : B[j].url = out[k].url
        IN  /\ Len(out) = Cardinality(new)
            /\ \A k \in 1..Len(out) : \E j \in new : out[k] = B[j]
            /\ \A j \in new : \E k \in 1..Len(out) : out[k] = B[j]
            /\ \A k \in 1..Len(out) : \A l \in 1..Len(out) :
                  k < l => at(k) < at(l)
            /\ A = B => out = <<>>

\* C8 witness: a diff that drops an entry of B whose URL is in A under
\* another label, and keeps the other entry.
C8_Witness ==
    /\ pc = "diffed" /\ Len(out) = 1
    /\ LET A == collectLinks(argA, BaseUrl)
           B == collectLinks(argB, BaseUrl)
       IN  /\ Len(B) = 2
           /\ \E j \in 1..Len(B) : \E k \in 1..Len(A) :
                 B[j].url = A[k].url /\ B[j].text # A[k].text

\* C9: the LinkSet collectLinks builds has no two entries with the same
\* URL, has an entry for every anchor it keeps, and labels each URL with the
\* text (cut to 120 characters) of the first kept anchor resolving to it.
C9_UniqueFirstLabel ==
    pc = "collected" =>
        /\ \A k \in 1..Len(out) : \A l \in 1..Len(out) :
              out[k].url = out[l].url => k = l
        /\ Keys(out) = KeptUrls(argA)
        /\ \A k \in 1..Len(out) :
              LET same == {j \in 1..Len(argA) :
                              /\ Kept(argA[j])
                              /\ URLhref(argA[j].href, BaseUrl).href = out[k].url}
                  first == CHOOSE j \in same : \A m \in same : j <= m
              IN  out[k].text = SubSeq(argA[first].text, 1,
                                       Min(Len(argA[first].text), LabelMax))

\* C9 witness: two anchors with different hrefs and labels resolve to one
\* URL, and one entry was made.
C9_Witness ==
    /\ pc = "collected" /\ Len(argA) = 2 /\ Len(out) = 1
    /\ argA[1].href # argA[2].href /\ argA[1].text # argA[2].text
    /\ Kept(argA[1]) /\ Kept(argA[2])

\* C10: no link of any section comes from an anchor whose href begins with
\* javascript:, mailto: or tel: or is exactly #; and an href that does not
\* resolve is skipped alone: each scan still yields every anchor it keeps.
C10_ExclusionFilter ==
    IsExplore =>
        /\ \A k \in 1..Len(sections) : \A l \in 1..Len(sections[k].links) :
              ~SpecExcluded(sections[k].links[l].from)
        /\ ret.kind = "report" =>
              \A k \in 1..Len(ret.sections) :
                 \A l \in 1..Len(ret.sections[k].links) :
                    ~SpecExcluded(ret.sections[k].links[l].from)
        /\ pc = "nav" => Keys(baseline) = KeptUrls(Dom)
        /\ (pc = "navEmit" /\ "nav" \notin faults) =>
              Keys(primaryNavLinks) =
                 KeptUrls(SelectSeq(Dom, LAMBDA a :
                     \E k \in 1..Len(navSelectors) : navSelectors[k] \in a.sels))
        /\ (pc = "footerEmit" /\ "footer" \notin faults) =>
              Keys(footerLinks) =
                 KeptUrls(SelectSeq(Dom, LAMBDA a :
                     \E k \in 1..Len(footerSelectors) :
                        footerSelectors[k] \in a.sels))
                     \ Keys(primaryNavLinks)

\* C10 witness: a fault-free run on the page whose navigation holds a tel:
\* link, a bare # and a malformed href has returned two sections.
C10_Witness ==
    /\ IsExplore /\ Returned /\ faults = {} /\ site = SiteStatic
    /\ Len(ret.sections) = 2 /\ Len(ret.sections[1].links) = 2

\* The links of every LinkSet and section of the run so far.
AllLinks ==
    {baseline[k] : k \in 1..Len(baseline)}
        \cup {primaryNavLinks[k] : k \in 1..Len(primaryNavLinks)}
        \cup {footerLinks[k] : k \in 1..Len(footerLinks)}
        \cup UNION {{sections[k].links[l] : l \in 1..Len(sections[k].links)} :
                       k \in 1..Len(sections)}

\* C11 (as claimed): an anchor whose href is empty is discarded: no link of
\* a LinkSet or of a section comes from an empty href.
C11_EmptyHrefDiscarded ==
    IsExplore => \A link \in AllLinks : link.from # <<>>

\* The anchors of the document under one of the footer selectors.
FooterScope(dom) ==
    SelectSeq(dom, LAMBDA a :
        \E k \in 1..Len(footerSelectors) : footerSelectors[k] \in a.sels)

\* C12: the Footer section holds no URL of the primary-nav LinkSet and no
\* URL twice; it is the footer LinkSet cut to the budget left when it is
\* emitted, and that LinkSet holds exactly the URLs of the footer-scope
\* anchors that pass the filter and resolve, less those of primary nav.
C12_FooterExcludesNav ==
    IsExplore =>
        \A k \in 1..Len(sections) :
            sections[k].label = FooterLabel =>
                LET links == sections[k].links
                    before == SumLinks(SubSeq(sections, 1, k - 1))
                IN  /\ Keys(links) \cap Keys(primaryNavLinks) = {}
                    /\ \A l \in 1..Len(links) : \A m \in 1..Len(links) :
                          links[l].url = links[m].url => l = m
                    /\ links = SubSeq(footerLinks, 1,
                                      Min(Len(footerLinks),
                                          ToInteger(Minus(maxLinks, before))))
                    /\ "footer" \notin faults =>
                          Keys(footerLinks) =
                              KeptUrls(FooterScope(Dom)) \ Keys(primaryNavLinks)

\* C12 witness: on the page whose footer repeats /b of the navigation, a
\* fault-free run with a budget of 3 has emitted a Footer section of one
\* link, cut from a footer LinkSet of two that does not hold /b.
C12_Witness ==
    /\ IsExplore /\ Returned /\ faults = {} /\ site = SiteStatic
    /\ maxLinks = Number(3, FALSE)
    /\ URLhref(H_b, BaseUrl).href \in Keys(primaryNavLinks)
    /\ URLhref(H_b, BaseUrl).href \in KeptUrls(FooterScope(Dom))
    /\ Len(footerLinks) = 2
    /\ \E k \in 1..Len(sections) :
          sections[k].label = FooterLabel /\ Len(sections[k].links) = 1

\* The anchors of the document under one of the primary-nav selectors.
NavScope(dom) ==
    SelectSeq(dom, LAMBDA a :
        \E k \in 1..Len(navSelectors) : navSelectors[k] \in a.sels)

\* The distinct URLs the primary-nav and footer scopes offer between them.
Offered == KeptUrls(NavScope(site.static)) \cup KeptUrls(FooterScope(site.static))

\* No section was emitted by a phase that began with the budget used up.
EmittedWithinBudget(secs) ==
    \A k \in 1..Len(secs) : Below(SumLinks(SubSeq(secs, 1, k - 1)), maxLinks)

\* C13 (as claimed): for any positive maxLinks, a run in which no step
\* failed, on a page whose primary-nav and footer scopes offer at least
\* maxLinks distinct URLs, returns totalLinksFound equal to maxLinks, and no
\* section comes from a phase that started with the budget exhausted.
C13_BudgetUsedUp ==
    (/\ IsExplore /\ Returned /\ faults = {}
     /\ Below(0, maxLinks)
     /\ AtLeast(Cardinality(Offered), maxLinks)) =>
        /\ ~maxLinks.half
        /\ ret.totalLinksFound = maxLinks.floor
        /\ EmittedWithinBudget(ret.sections)

\* The sections of Hover Exploration and Hamburger-Menu Exploration.
IsRevealSection(sec) == sec.label \notin {PrimaryNavLabel, FooterLabel}

\* C14 (as claimed): the baseline is the comparison floor: no link of a hover
\* section or of the hamburger section has a URL of the baseline LinkSet
\* (stated here for the runs in which no step failed).
C14_BaselineIsFloor ==
    (IsExplore /\ faults = {}) =>
        \A k \in 1..Len(sections) :
            IsRevealSection(sections[k]) =>
                Keys(sections[k].links) \cap Keys(baseline) = {}

\* C15 (as claimed): at most one hamburger toggle is clicked open in a run,
\* whatever happens after the click (stated here for the runs in which
\* nothing but steps of the hamburger phase failed).
C15_OneToggleClicked ==
    (IsExplore /\ faults \subseteq {"hamburger"}) =>
        Cardinality({k \in 1..Len(clicks) : clicks[k].at = "open"}) <= 1

\* The steps inside the try block of search-for-page.
SearchSteps == {"goto", "settle", "evaluate"}

\* C19: search-for-page returns at most 10 matches, with pairwise distinct
\* URLs, in document order, each holding the keyword, compared without
\* regard to case, in its resolved URL or its link text; and when the
\* navigation, the wait or the query fails it returns an empty match list.
C19_SearchMatches ==
    IsSearch =>
        /\ ret.kind = "search" =>
              LET m == ret.matches
                  kw == ToLowerCase(keyword)
                  dom == EvaluateAll(Dom)
                  hits(k) == {j \in 1..Len(dom) :
                                 /\ URLhref(dom[j].href, BaseUrl).ok
                                 /\ URLhref(dom[j].href, BaseUrl).href = m[k].url
                                 /\ dom[j].text = m[k].linkText}
                  at(k) == CHOOSE j \in hits(k) : \A n \in hits(k) : j <= n
              IN  /\ Len(m) <= MAX_MATCHES
                  /\ \A k \in 1..Len(m) : \A l \in 1..Len(m) :
                        m[k].url = m[l].url => k = l
                  /\ \A k \in 1..Len(m) :
                        \/ Includes(ToLowerCase(m[k].url), kw)
                        \/ Includes(ToLowerCase(m[k].linkText), kw)
                  /\ \A k \in 1..Len(m) : hits(k) # {}
                  /\ \A k \in 1..Len(m) : \A l \in 1..Len(m) :
                        k < l => at(k) < at(l)
        /\ (ret.kind = "search" /\ faults \cap SearchSteps # {}) =>
              ret.matches = <<>>
        /\ (Finished /\ faults # {} /\ faults \subseteq SearchSteps) =>
              (result = "value" /\ ret = SearchResult(<<>>))

\* C19 witness: on the listing page, whose twelve anchors give eleven
\* distinct URLs that all hold the keyword, the search returned ten matches.
C19_Witness ==
    /\ IsSearch /\ Returned /\ site = SiteMany /\ keyword = <<"K">>
    /\ Cardinality(KeptUrls(Dom)) = MAX_MATCHES + 1
    /\ Len(Dom) = MAX_MATCHES + 2
    /\ Len(ret.matches) = MAX_MATCHES
    /\ ret.matches[1].linkText = T_A

\* C20 (as claimed): scrape-url never returns content longer than 15000
\* characters; truncated is true exactly when the converted markdown was
\* longer than that; on an HTTP error status and on a navigation error
\* truncated is false and the title is empty.
C20_ContentCapped ==
    (IsScrape /\ ret.kind = "scrape") =>
        /\ ret.length <= MAX_CHARS
        /\ ret.content = "markdown" =>
              /\ ret.truncated <=> (site.mdLen > MAX_CHARS)
              /\ ret.length = Min(site.mdLen, MAX_CHARS)
        /\ ret.content # "markdown" =>
              (~ret.truncated /\ ret.title = <<>>)

\* What does hold of scrape-url: the cap and the flag on the markdown path,
\* and the flag and the title on the two error paths.
ScrapeMarkdownCapped ==
    (IsScrape /\ ret.kind = "scrape") =>
        /\ ret.content = "markdown" =>
              /\ ret.length <= MAX_CHARS
              /\ ret.truncated <=> (site.mdLen > MAX_CHARS)
              /\ ret.length = Min(site.mdLen, MAX_CHARS)
        /\ ret.content = "Page returned HTTP" => ret.length = HttpMessageLen
        /\ ret.content # "markdown" =>
              (~ret.truncated /\ ret.title = <<>>)

\* C16: as long as releaseSession has not been called, whatever the
\* interleaving of the getSession, getBrowser and getPage callers, one Steel
\* session at most is asked for, connectOverCDP is called once at most, and
\* every session, browser and page handed out is of that session and browser.
C16_CreatedOnce ==
    ~releaseCalled =>
        /\ Len(sessions) <= 1
        /\ Len(browsers) <= 1
        /\ Cardinality({b \in DOMAIN browsers : browsers[b].dialled}) <= 1
        /\ \A b \in DOMAIN browsers : browsers[b].sess = 1
        /\ \A r \in returned :
              r.value.kind \in {"session", "browser"} => r.value.id = 1
        /\ \A n \in DOMAIN pages : pages[n].browser = 1

\* C16 witness: a call of getSession has returned the session, and both tool
\* callers are waiting for the one browser while it connects.
C16_Witness ==
    /\ ~releaseCalled /\ main = "none"
    /\ callers["t1"].pc = "browser" /\ callers["t2"].pc = "browser"
    /\ callers["t1"].on = callers["t2"].on
    /\ Len(sessions) = 1 /\ Len(browsers) = 1
    /\ browsers[1].state = "connecting"
    /\ \E r \in returned : r.value = SessionValue(1)

\* C17 (as claimed): when the process of index.ts has ended after the Steel
\* session was created, releaseSession was called before it ended.
C17_ReleasedBeforeExit ==
    (/\ main \in {"exited", "end"}
     /\ \E k \in DOMAIN sessions : sessions[k] \in {"live", "released"}) =>
        releaseCalled

\* C18 (as claimed): once a releaseSession has completed, no browser whose
\* getBrowser call was made before that is connected, and every session
\* asked for before that is released.
C18_ReleaseClosesConnection ==
    swept.done =>
        /\ \A b \in 1..swept.browsers : browsers[b].state # "open"
        /\ \A k \in 1..swept.sessions : sessions[k] \notin {"pending", "live"}

\* The phase a position of execute belongs to, in the order of the code:
\* 1 Navigate, 2 Dismiss, 3 Baseline, 4 Primary Navigation Scan, 5 Hover
\* Exploration, 6 Hamburger-Menu Exploration, 7 Footer Scan, 8 Done.
PhaseOf(at) ==
    CASE at = "getPage" -> 0
      [] at \in {"goto", "settle"} -> 1
      [] at = "dismiss" -> 2
      [] at = "baseline" -> 3
      [] at \in {"nav", "navEmit"} -> 4
      [] at \in {"hoverScope", "hoverItem"} -> 5
      [] at = "hamburger" -> 6
      [] at \in {"footerGuard", "footer", "footerEmit"} -> 7
      [] OTHER -> 8

PhaseNames == << "Navigate", "Dismiss", "Baseline", "PrimaryNav", "Hover",
                 "Hamburger", "Footer", "Catch" >>

\* The phases entered so far, as numbers.
PhasesRan == {n \in 1..Len(PhaseNames) : PhaseNames[n] \in ran}

\* The place of a section in the report: 1 Primary Nav, 2 a hover section,
\* 3 Mobile/Hamburger Menu, 4 Footer.
SectionRank(sec) ==
    CASE sec.label = PrimaryNavLabel -> 1
      [] sec.label = HamburgerLabel -> 3
      [] sec.label = FooterLabel -> 4
      [] OTHER -> 2

SectionsInOrder(secs) ==
    /\ \A k \in 1..Len(secs) : \A l \in 1..Len(secs) :
          k < l => /\ SectionRank(secs[k]) <= SectionRank(secs[l])
                   /\ SectionRank(secs[k]) = SectionRank(secs[l]) =>
                         SectionRank(secs[k]) = 2
    /\ \A k \in 1..Len(secs) :
          SectionRank(secs[k]) = 2 =>
              StartsWith(secs[k].label, DropdownLabel(<<>>))

\* C21: the phases of an explore-navigation run are entered in the order
\* Navigate, Dismiss, Baseline, Primary Navigation Scan, Hover Exploration,
\* Hamburger-Menu Exploration, Footer Scan, Done: no phase later than the
\* current one has been entered, every earlier one has, and the run never
\* goes back to an earlier phase.  The sections follow that order: at most
\* one Primary Nav section first, then the hover sections, then at most one
\* Mobile/Hamburger Menu section, then at most one Footer section.
C21_PhaseOrder ==
    /\ [](IsExplore =>
            /\ \A n \in PhasesRan : n <= PhaseOf(pc)
            /\ PhaseOf(pc) \in 1..7 => 1..(PhaseOf(pc) - 1) \subseteq PhasesRan
            /\ (pc = "return") => 1..6 \subseteq PhasesRan
            /\ SectionsInOrder(sections)
            /\ ret.kind = "report" => SectionsInOrder(ret.sections))
    /\ [][IsExplore => PhaseOf(pc') >= PhaseOf(pc)]_vars

\* C21 witness: a returned report with a section of each kind, in order,
\* from a run that entered all seven phases.
C21_Witness ==
    /\ IsExplore /\ Returned /\ site = SitePortal
    /\ PhasesRan = 1..7
    /\ [k \in 1..Len(ret.sections) |-> ret.sections[k].label]
           = << PrimaryNavLabel, DropdownLabel(<<"P">>), HamburgerLabel,
                FooterLabel >>

\* C22: from a state of an explore-navigation run in which totalLinksFound
\* has reached maxLinks, no step processes a hover candidate (the candidate
\* index and the document stay as they are), no toggle is clicked, the
\* phases from Hover Exploration on emit nothing, and the Footer Scan is
\* not entered: no scroll is attempted and no footer scope is queried.
C22_BudgetExhaustedSkips ==
    [][(IsExplore /\ AtLeast(totalLinksFound, maxLinks)) =>
          /\ pc = "hoverItem" => i' = i
          /\ dropdown' = dropdown /\ menuOpen' = menuOpen
          /\ PhaseOf(pc) \in 5..7 =>
                (sections' = sections /\ totalLinksFound' = totalLinksFound)
          /\ "Footer" \in ran' => "Footer" \in ran
          /\ "footerScroll" \in faults' => "footerScroll" \in faults
          /\ pc' \notin {"footer", "footerEmit"}]_vars

\* C22 witness: with a budget of 1 used up by Primary Nav, a run on the page
\* that has a hover candidate, a toggle and a footer link has returned
\* without hovering, clicking or entering the Footer Scan.
C22_Witness ==
    /\ IsExplore /\ Returned /\ site = SitePortal
    /\ maxLinks = Number(1, FALSE) /\ ret.totalLinksFound = 1
    /\ Len(ret.sections) = 1
    /\ "Hover" \in ran /\ "Footer" \notin ran
    /\ dropdown = <<>> /\ clicks = <<>>
    /\ KeptUrls(FooterScope(Dom)) # {}

\* C23 (as claimed): when the Footer Scan is reached, every toggle that was
\* clicked open has been clicked a second time, whatever became of the
\* snapshot after the opening click (stated here for the runs in which
\* nothing but steps of the hamburger phase failed, the closing click not
\* among them).
C23_SecondClickAttempted ==
    (IsExplore /\ PhaseOf(pc) >= 7 /\ faults \subseteq {"hamburger"}) =>
        \A k \in 1..Len(clicks) :
            clicks[k].at = "open" =>
                /\ k < Len(clicks)
                /\ clicks[k + 1] = Click(clicks[k].id, "close")

\* C24: a step of the candidate loop in which the candidate fails (reading
\* its text, snapshotting, hovering or waiting) leaves sections,
\* totalLinksFound and errors as they are and moves on to the next candidate
\* of the same scope: the phase and the run go on.
C24_CandidateFailureSwallowed ==
    [][(IsExplore /\ pc = "hoverItem" /\ faults' # faults) =>
          /\ sections' = sections
          /\ totalLinksFound' = totalLinksFound
          /\ errors' = errors
          /\ pc' = "hoverItem" /\ sel' = sel /\ count' = count
          /\ i' = i + 1
          /\ result' = "none"]_vars

\* C24 witness: on the hover page the first candidate of the first scope
\* failed and nothing else did; the second candidate of that scope and the
\* candidate of the second scope each gave a section, and the run returned
\* with no error.
C24_Witness ==
    /\ IsExplore /\ Returned /\ site = SiteHover /\ faults = {"hover"}
    /\ ret.errors = <<>>
    /\ [k \in 1..Len(ret.sections) |-> ret.sections[k].label]
           = << PrimaryNavLabel, DropdownLabel(<<"I","t","e","m"," ","1">>),
                DropdownLabel(<<"P">>) >>

\* C25 (as claimed): once the dismisser has attempted to activate a pattern
\* it found visible, it tries no later pattern, whether or not the
\* activation succeeded; and a call dismisses one overlay at most.
C25_DismisserStopsAfterAttempt ==
    IsExplore =>
        /\ ("dismissClick" \in faults /\ pc = "dismiss") =>
              sel > Len(cookieSelectors)
        /\ Cardinality(site.overlays \ overlays) <= 1

\* C26: the dismisser never raises and always completes: each of its steps
\* either ends it, handing over to the Baseline phase, or moves on to the
\* next of its ten patterns, whatever failed in the step; and no step of it
\* changes sections, totalLinksFound or errors.
C26_DismisserNeverRaises ==
    /\ [](IsExplore /\ pc = "dismiss" => sel \in 1..(Len(cookieSelectors) + 1))
    /\ [][(IsExplore /\ pc = "dismiss") =>
             /\ \/ pc' = "baseline"
                \/ pc' = "dismiss" /\ sel' = sel + 1
             /\ result' = "none"
             /\ sections' = sections
             /\ totalLinksFound' = totalLinksFound
             /\ errors' = errors]_vars

\* C26 witness: the dismisser has completed on a page that shows an overlay
\* after a failed visibility test and a failed click, with nothing dismissed
\* and nothing recorded.
C26_Witness ==
    /\ IsExplore /\ pc = "baseline"
    /\ faults = {"dismiss", "dismissClick"}
    /\ overlays = site.overlays /\ overlays # {}
    /\ errors = <<>> /\ sections = <<>> /\ totalLinksFound = 0

\* C27: when the scroll of the Footer Scan or the wait after it fails, one
\* message is appended to errors, sections and totalLinksFound stay as the
\* earlier phases left them, and the run goes to its return statement, not
\* to the top-level catch: the report it returns holds those sections, that
\* count and that one message.
C27_FooterFailureRecorded ==
    /\ [][(IsExplore /\ "footerScroll" \in faults' /\ "footerScroll" \notin faults) =>
             /\ errors' = Append(errors, "Footer scroll failed")
             /\ sections' = sections
             /\ totalLinksFound' = totalLinksFound
             /\ pc' = "return"]_vars
    /\ [](IsExplore /\ "footerScroll" \in faults =>
             /\ "Catch" \notin ran
             /\ errors = <<"Footer scroll failed">>
             /\ \A k \in 1..Len(sections) : sections[k].label # FooterLabel
             /\ ret.kind = "report" => ret = Report
             /\ (Finished /\ "close" \notin faults) =>
                   (result = "value" /\ ret = Report))

\* C27 witness: on the page where every phase finds something, the scroll
\* failed and the run returned the three sections of the earlier phases
\* with the one message.
C27_Witness ==
    /\ IsExplore /\ Returned /\ site = SitePortal
    /\ faults = {"footerScroll"}
    /\ Len(ret.sections) = 3 /\ ret.totalLinksFound = 3
    /\ ret.errors = <<"Footer scroll failed">>

\* Where a run stands, as a number that every step increases: the position
\* in execute, then the selector of the loop it is in, then the candidate.
Stage(at) ==
    CASE at = "getPage" -> 0
      [] at = "goto" -> 1
      [] at = "settle" -> 2
      [] at = "dismiss" -> 3
      [] at = "baseline" -> 4
      [] at = "nav" -> 5
      [] at = "navEmit" -> 6
      [] at \in {"hoverScope", "hoverItem"} -> 7
      [] at = "hamburger" -> 8
      [] at = "footerGuard" -> 9
      [] at = "footer" -> 10
      [] at = "footerEmit" -> 11
      [] at \in {"return", "catch"} -> 12
      [] at = "finally" -> 13
      [] OTHER -> 14

StageSpan == (Len(hoverTargetSelectors) + 2) * (HoverCap + 2)

Progress ==
    Stage(pc) * StageSpan
        + (IF pc \in {"hoverScope", "hoverItem"} THEN sel * (HoverCap + 2)
           ELSE IF pc \in {"dismiss", "nav", "hamburger", "footer"} THEN sel
           ELSE 0)
        + (IF pc = "hoverItem" THEN 1 + i ELSE 0)

\* C28: every explore-navigation run whose browser operations all settle
\* comes to its end; every step takes it forward in a bounded order, so the
\* number of queries and interactions is bounded whatever the page; and a
\* hover scope processes 15 candidates at most.
C28_RunTerminates ==
    /\ IsExplore ~> Finished
    /\ [][IsExplore => Progress' > Progress]_vars
    /\ [](IsExplore =>
            /\ Progress \in 0..(15 * StageSpan)
            /\ pc = "hoverItem" => i <= HoverCap
            /\ (Finished /\ faults \cap {"getPage", "close"} = {}) =>
                  (result = "value" /\ ret.kind = "report"))

\* C28 witness: on the page whose scope matches sixteen buttons the run
\* has returned; the fifteenth gave a section and the sixteenth, which
\* would have shown another link, was not processed.
C28_Witness ==
    /\ IsExplore /\ Returned /\ site = SiteWide /\ faults = {}
    /\ count = HoverCap + 1 /\ i = HoverCap
    /\ [k \in 1..Len(ret.sections) |-> ret.sections[k].label]
           = << DropdownLabel(NumberToString(HoverCap)) >>
    /\ Keys(ret.sections[1].links) = {URLhref(H_b, BaseUrl).href}

\* C29 (as claimed): the getPage calls return pages that differ from one
\* another, and all pages handed out are in one and the same context of the
\* one browser, whatever the interleaving of the calls and also when the
\* browser had no context at first (stated here for the time before
\* releaseSession is called).
C29_PagesShareContext ==
    ~releaseCalled =>
        /\ \A r1 \in returned : \A r2 \in returned :
              (r1.value.kind = "page" /\ r2.value.kind = "page" /\ r1 # r2) =>
                  r1.value.id # r2.value.id
        /\ \A m \in DOMAIN pages : \A n \in DOMAIN pages :
              /\ pages[m].browser = pages[n].browser
              /\ pages[m].context = pages[n].context

\* The URLs of the links of a report, section by section, as one sequence.
RECURSIVE UrlsOf(_)
UrlsOf(secs) ==
    IF secs = <<>> THEN <<>>
    ELSE [l \in 1..Len(Head(secs).links) |-> Head(secs).links[l].url]
             \o UrlsOf(Tail(secs))

Distinct(s) == \A k \in 1..Len(s) : \A l \in 1..Len(s) : s[k] = s[l] => k = l

\* C30 (as claimed): in a returned report all links are pairwise distinct by
\* URL: no URL occurs twice in a section and none occurs in two sections.
C30_AllLinksDistinct ==
    (IsExplore /\ ret.kind = "report") => Distinct(UrlsOf(ret.sections))

\* C30 (amended): in a report no URL occurs twice within a section, and no
\* URL of the Footer section occurs in the Primary Nav section; a URL may
\* occur in two sections otherwise.
C30_DistinctWithinSection ==
    (IsExplore /\ ret.kind = "report") =>
        /\ \A k \in 1..Len(ret.sections) : Distinct(UrlsOf(<<ret.sections[k]>>))
        /\ \A k \in 1..Len(ret.sections) : \A l \in 1..Len(ret.sections) :
              (/\ ret.sections[k].label = PrimaryNavLabel
               /\ ret.sections[l].label = FooterLabel) =>
                  Keys(ret.sections[k].links) \cap Keys(ret.sections[l].links) = {}

\* C30 witness: a fault-free run on the page whose navigation has two
\* anchors for one URL and whose footer repeats a navigation link returned
\* a Primary Nav section and a Footer section of two links each, four
\* distinct URLs in all.
C30_Witness ==
    /\ IsExplore /\ Returned /\ faults = {} /\ site = SiteStatic
    /\ Len(NavScope(Dom)) > Cardinality(KeptUrls(NavScope(Dom)))
    /\ KeptUrls(NavScope(Dom)) \cap KeptUrls(FooterScope(Dom)) # {}
    /\ [k \in 1..Len(ret.sections) |-> ret.sections[k].label]
           = << PrimaryNavLabel, FooterLabel >>
    /\ Len(UrlsOf(ret.sections)) = 4 /\ Distinct(UrlsOf(ret.sections))

\* C31 (as claimed): once a releaseSession has completed, no call of
\* getBrowser returns a browser that is closed: a call made after the
\* release gets a new connection.
C31_NoClosedBrowserReturned ==
    [][\A r \in returned' \ returned :
          (swept.done /\ r.op = "getBrowser" /\ r.value.kind = "browser") =>
              browsers'[r.value.id].state # "closed"]_vars

\* C32 (as claimed): a failed session creation or connection is not
\* retained: a getSession or getBrowser call is rejected only by an attempt
\* that was in progress while the call waited, never in the step that makes
\* the call, by an attempt that had failed before it.
C32_FailureNotRetained ==
    [][\A r \in returned' \ returned :
          (r.op \in {"getSession", "getBrowser"} /\ r.value.kind = "rejected") =>
              callers[r.caller].op = r.op]_vars

====
